---------------------------- MODULE Spec2Model ----------------------------
(***************************************************************************)
(* Insight Analysis Engine of the efficiency-summary reports.              *)
(*                                                                         *)
(* The module models the analyzers of src/reports/efficiency-summary as    *)
(* state machines.  Numbers the Python code holds as floats are exact      *)
(* rationals here: Num records [nan, num, den] with den > 0, NaN being     *)
(* the float NaN that pandas uses for a missing cell.  A JSON value that   *)
(* may be null is an option: <<>> is None / NaN, <<v>> is the value v.     *)
(***************************************************************************)
EXTENDS Integers, Sequences, FiniteSets, TLC

(***************************************************************************)
(* Bounds of the model.                                                    *)
(***************************************************************************)
MaxRows == 2      \* longest generated pull-request list
MaxK == 2         \* largest generated --clusters argument besides the default
MaxDraw == 1      \* the seeded generator's stream is one of 0..MaxDraw

VARIABLES
    pc,              \* position of main() in the stale-PR run
    args_clusters,   \* args.clusters
    data,            \* StalePRMLAnalyzer.data['detailed_analysis']['pull_requests']
    processed_data,  \* StalePRMLAnalyzer.processed_data: <<>> (None) or <<table>>
    insights,        \* StalePRMLAnalyzer.insights, every key an option
    risk_df,         \* the risk_score / risk_level columns of predict_risk_scores' df
    out_file,        \* ml_insights.json: <<>> (not written) or <<tree>>
    exit_code,       \* -1 while running, else the process exit code
    rng42,           \* what the library's generator seeded with 42 draws
    engine,          \* the report type whose cluster engine is exercised
    cl_input,        \* the table and the cluster count handed to that engine
    cl_pc,           \* "ready", or "normalized" between the two lifecycle calls
    analyzer,        \* the analyzer object the engine's runs are made on
    runs,            \* the runs made so far, oldest first
    detector,        \* the report type whose anomaly detector is exercised
    column,          \* the metric column handed to it
    anomalies,       \* <<>> before the detector ran, else <<its anomaly list>>
    rule_input,      \* the aggregates handed to a recommendation synthesizer
    rule_output,     \* <<>> before it ran, else <<its recommendations>>
    serializer,      \* the report type whose serializer is exercised
    sz_report,       \* the Python object handed to it
    sz_written,      \* <<>> before it ran, else <<what it did>>
    program,         \* the report type whose main() is run
    run_input,       \* the input file and the arguments of that run
    run_exit,        \* -1 while running, else the process exit code
    run_file,        \* the kind of output file the run wrote ("none": no file)
    extractor,       \* the report type whose feature extractor is exercised
    fx_records,      \* the records of the input file handed to it
    features_df,     \* <<>> before it ran, else <<its outcome>>
    elbow_input,     \* row count, max_clusters and the inertias of the fits
    optimal_k,       \* <<>> before _find_optimal_clusters ran, else <<k>>
    merge_input,     \* the metrics and n_clusters handed to merge-readiness analyze
    merge_insights,  \* <<>> before analyze ran, else <<its clustering analysis>>
    receiver,        \* the analyzer object whose methods a caller invokes in any order
    last_call,       \* <<>> before the first call, else <<the method and whether it raised>>
    pattern_analyzer, \* the sentiment CollaborationAnalyzer that is called repeatedly
    pattern_runs,    \* its calls so far, oldest first: the input's features and the run
    predictor,       \* the ConflictPredictor object
    predictor_call,  \* <<>> before the first call on it, else <<the call and its result>>
    conflict_block   \* <<>> before main() passed its conflict block, else <<ml_results after it>>

mainVars == <<pc, args_clusters, data, processed_data, insights, risk_df,
              out_file, exit_code>>
clusterVars == <<engine, cl_input, cl_pc, analyzer, runs>>
anomalyVars == <<detector, column, anomalies>>
ruleVars == <<rule_input, rule_output>>
serialVars == <<serializer, sz_report, sz_written>>
runVars == <<program, run_input, run_exit, run_file>>
featureVars == <<extractor, fx_records, features_df>>
elbowVars == <<elbow_input, optimal_k>>
mergeVars == <<merge_input, merge_insights>>
callVars == <<receiver, last_call>>
patternVars == <<pattern_analyzer, pattern_runs>>
predictorVars == <<predictor, predictor_call, conflict_block>>
afterMergeVars == <<callVars, patternVars, predictorVars>>
lateVars == <<mergeVars, afterMergeVars>>
stageVars == <<serialVars, runVars, featureVars, elbowVars, lateVars>>
sideVars == <<clusterVars, anomalyVars, ruleVars, stageVars>>
vars == <<mainVars, rng42, sideVars>>

(***************************************************************************)
(* Options, sequences and exact arithmetic.                                *)
(***************************************************************************)
None == <<>>
Some(v) == <<v>>
IsNone(o) == o = <<>>
Val(o) == o[1]

Range(s) == {s[i] : i \in DOMAIN s}
SeqsUpTo(S, n) == UNION {[1..m -> S] : m \in 0..n}

RECURSIVE SumOver(_, _)
SumOver(f, S) ==
    IF S = {} THEN 0
    ELSE LET x == CHOOSE y \in S : TRUE IN f[x] + SumOver(f, S \ {x})

RECURSIVE SelectIdx(_, _, _)
\* the indices i of 1..n with keep[i], in increasing order
SelectIdx(keep, i, n) ==
    IF i > n THEN <<>>
    ELSE (IF keep[i] THEN <<i>> ELSE <<>>) \o SelectIdx(keep, i + 1, n)

Abs(x) == IF x < 0 THEN -x ELSE x

RECURSIVE Gcd(_, _)
Gcd(a, b) == IF b = 0 THEN Abs(a) ELSE Gcd(b, a % b)

NaN == [nan |-> TRUE, num |-> 0, den |-> 1]
Rat(n, d) ==
    LET g == Gcd(Abs(n), d) IN
    IF g = 0 THEN [nan |-> FALSE, num |-> 0, den |-> 1]
    ELSE [nan |-> FALSE, num |-> n \div g, den |-> d \div g]
Int2Num(n) == Rat(n, 1)
RAdd(a, b) ==
    IF a.nan \/ b.nan THEN NaN ELSE Rat(a.num * b.den + b.num * a.den, a.den * b.den)
RLess(a, b) == ~a.nan /\ ~b.nan /\ a.num * b.den < b.num * a.den
RLeq(a, b) == ~a.nan /\ ~b.nan /\ a.num * b.den <= b.num * a.den
RGtInt(a, n) == ~a.nan /\ a.num > n * a.den      \* a > n, False for NaN
REqInt(a, n) == ~a.nan /\ a.num = n * a.den

\* Series.mean(): NaN cells are skipped, the mean of no cell is NaN.
\* cells is a sequence of options of integers.
Mean(cells) ==
    LET live == {i \in DOMAIN cells : ~IsNone(cells[i])} IN
    IF live = {} THEN NaN
    ELSE Rat(SumOver([i \in live |-> Val(cells[i])], live), Cardinality(live))

\* the mean of a boolean column
Rate(flags) == Mean([i \in DOMAIN flags |-> Some(IF flags[i] THEN 1 ELSE 0)])


(***************************************************************************)
(* Input: the pull requests of the report file.  A pull request is the     *)
(* parsed JSON object; number, days and additions may be JSON null (or,    *)
(* for number, absent), the other numbers are integers, possibly negative. *)
(***************************************************************************)
BasePR ==
    [number |-> Some(1), author |-> "alice", repository |-> "r1", created_hour |-> 9,
     days |-> Some(0), category |-> "unknown",
     review_count |-> 0, comment_count |-> 0, commit_count |-> 0,
     failing_checks |-> 0, total_checks |-> 0, additions |-> Some(0), deletions |-> 0]

StalePR ==
    [BasePR EXCEPT !.number = Some(2), !.author = "bob", !.created_hour = 17,
                   !.days = Some(90), !.category = "stale"]
FailingCIPR ==
    [BasePR EXCEPT !.number = Some(3), !.failing_checks = 1, !.total_checks = 1,
                   !.category = "failing_ci"]
BlockedPR ==
    [BasePR EXCEPT !.number = Some(4), !.days = Some(90), !.failing_checks = 1,
                   !.total_checks = 1, !.commit_count = 1, !.category = "abandoned"]
EngagedPR ==
    [BasePR EXCEPT !.number = Some(5), !.review_count = 1, !.repository = "r2"]
RevertedPR ==
    [BasePR EXCEPT !.number = Some(6), !.days = Some(90), !.failing_checks = 2,
                   !.total_checks = 2, !.review_count = -1, !.category = "stale"]
HugePR ==
    [BasePR EXCEPT !.number = Some(7), !.author = "bob", !.days = Some(90),
                   !.failing_checks = 1, !.total_checks = 1, !.review_count = -1,
                   !.comment_count = -1, !.additions = Some(600),
                   !.category = "abandoned"]
NullDaysPR ==
    [BasePR EXCEPT !.number = Some(8), !.days = None, !.category = "stale"]
NullAdditionsPR ==
    [BasePR EXCEPT !.number = Some(9), !.additions = None]
NoNumberPR ==
    [BasePR EXCEPT !.number = None]

PRUniverse ==
    {BasePR, StalePR, FailingCIPR, BlockedPR, EngagedPR, RevertedPR, HugePR,
     NullDaysPR, NullAdditionsPR, NoNumberPR}

\* spec.md, end-to-end scenario A: 12 records, every other factor at its default
ScenarioADays == <<5, 5, 5, 5, 5, 5, 5, 5, 5, 95, 97, 99>>
ScenarioA ==
    [i \in 1..12 |-> [BasePR EXCEPT !.number = Some(i), !.days = Some(ScenarioADays[i])]]

\* six pull requests at the top of every risk-raising factor (inactive
\* days, failing checks, changes) and at 0 in the risk-lowering ones
RiskiestPR ==
    [BasePR EXCEPT !.days = Some(90), !.failing_checks = 1, !.total_checks = 1,
                   !.additions = Some(600), !.category = "abandoned"]
RiskiestSix == [i \in 1..6 |-> [RiskiestPR EXCEPT !.number = Some(i)]]

\* the same six with a review count of -1, next to one reviewed pull request
NegativeEngagementSeven ==
    [i \in 1..7 |->
        IF i <= 6 THEN [RiskiestPR EXCEPT !.number = Some(i), !.review_count = -1]
        ELSE [EngagedPR EXCEPT !.number = Some(7)]]

PRLists ==
    SeqsUpTo(PRUniverse, MaxRows) \cup {ScenarioA, RiskiestSix, NegativeEngagementSeven}

DefaultClusters == 4
ClusterArgs == (0..MaxK) \cup {DefaultClusters}

NoInsights ==
    [abandonment_patterns |-> None, clustering |-> None,
     risk_analysis |-> None, recommendations |-> None]

(***************************************************************************)
(* prepare_features: one feature row per pull request; a pull request      *)
(* whose row construction raises is skipped.                               *)
(***************************************************************************)
\* the statements of the try block that raise: pr['number'] (KeyError) and
\* additions + deletions on None (TypeError)
RowRaises(pr) == IsNone(pr.number) \/ IsNone(pr.additions)

FeatureRow(pr) ==
    [pr_number |-> Val(pr.number), author |-> pr.author, repository |-> pr.repository,
     created_hour |-> pr.created_hour,
     inactive_days |-> pr.days,               \* a null becomes NaN in the DataFrame
     reason_category |-> pr.category,
     commit_count |-> pr.commit_count,
     total_changes |-> Val(pr.additions) + pr.deletions,
     \* check_failure_rate = failing_checks / max(total_checks, 1)
     check_failure_rate |->
         Rat(pr.failing_checks, IF pr.total_checks > 1 THEN pr.total_checks ELSE 1),
     engagement_score |-> pr.review_count + pr.comment_count]

prepare_features(prs) ==
    LET kept == SelectIdx([i \in DOMAIN prs |-> ~RowRaises(prs[i])], 1, Len(prs))
    IN  [j \in DOMAIN kept |-> FeatureRow(prs[kept[j]])]


(***************************************************************************)
(* predict_risk_scores                                                     *)
(***************************************************************************)
\* risk_factors, in dictionary order; the weights are in hundredths
\* (0.3, 0.25, -0.2, 0.1, -0.05)
RiskFactorNames ==
    <<"inactive_days", "check_failure_rate", "engagement_score", "total_changes",
      "commit_count">>
risk_factors ==
    [inactive_days |-> 30, check_failure_rate |-> 25, engagement_score |-> -20,
     total_changes |-> 10, commit_count |-> -5]

\* df[factor] as a column of Num
Column(table, factor) ==
    [i \in DOMAIN table |->
        CASE factor = "inactive_days" ->
                IF IsNone(table[i].inactive_days) THEN NaN
                ELSE Int2Num(Val(table[i].inactive_days))
          [] factor = "check_failure_rate" -> table[i].check_failure_rate
          [] factor = "engagement_score" -> Int2Num(table[i].engagement_score)
          [] factor = "total_changes" -> Int2Num(table[i].total_changes)
          [] factor = "commit_count" -> Int2Num(table[i].commit_count)]

\* Series.max(): NaN cells are skipped, NaN when no cell is left
ColMax(col) ==
    LET live == {i \in DOMAIN col : ~col[i].nan} IN
    IF live = {} THEN NaN
    ELSE col[CHOOSE i \in live : \A j \in live : RLeq(col[j], col[i])]

RDiv(a, b) == IF a.nan \/ b.nan THEN NaN ELSE Rat(a.num * b.den, a.den * b.num)
RScale(a, w) == IF a.nan THEN NaN ELSE Rat(a.num * w, a.den)

\* the factor column left on its own scale
NormalizedColumnRaw(col) == col

\* normalized_df[factor]: df[factor] / max_val if max_val > 0, else 0
NormalizedColumn(col) ==
    LET max_val == ColMax(col) IN
    IF RGtInt(max_val, 0) THEN [i \in DOMAIN col |-> RDiv(col[i], max_val)]
    ELSE [i \in DOMAIN col |-> Int2Num(0)]

RECURSIVE WeightedSum(_, _, _)
\* risk_scores += normalized_df[factor] * weight, for the factors j..5,
\* times 100: the weights are hundredths, so weight * 100 is the integer
WeightedSum(table, i, j) ==
    IF j > Len(RiskFactorNames) THEN Int2Num(0)
    ELSE LET factor == RiskFactorNames[j]
             cell == NormalizedColumn(Column(table, factor))[i]
         IN  RAdd(RScale(cell, risk_factors[factor]), WeightedSum(table, i, j + 1))

\* np.clip(x, lo, hi): NaN stays NaN
Clip(x, lo, hi) ==
    IF x.nan THEN NaN
    ELSE IF RLess(x, Int2Num(lo)) THEN Int2Num(lo)
    ELSE IF RLess(Int2Num(hi), x) THEN Int2Num(hi)
    ELSE x

RiskBins == <<0, 25, 50, 75, 100>>
RiskLabels == <<"Low", "Medium", "High", "Critical">>

\* the binning with right=False: bin b is [bins[b], bins[b+1]), the last bin
\* also holds its upper edge
CutLeftClosed(x, bins, labels) ==
    LET hit == {b \in DOMAIN labels :
                   \/ RLeq(Int2Num(bins[b]), x) /\ RLess(x, Int2Num(bins[b + 1]))
                   \/ b = Len(labels) /\ REqInt(x, bins[b + 1])}
    IN  IF hit = {} THEN None ELSE Some(labels[CHOOSE b \in hit : TRUE])

\* pd.cut(x, bins, labels, include_lowest=True) with the default right=True:
\* bin b is (bins[b], bins[b+1]], the first bin also holds bins[1]; a value
\* in no bin (and NaN) has no label
Cut(x, bins, labels) ==
    LET hit == {b \in DOMAIN labels :
                   \/ RLess(Int2Num(bins[b]), x) /\ RLeq(x, Int2Num(bins[b + 1]))
                   \/ b = 1 /\ REqInt(x, bins[1])}
    IN  IF hit = {} THEN None ELSE Some(labels[CHOOSE b \in hit : TRUE])

\* the risk_score and risk_level columns of df
RiskColumns(table) ==
    [i \in DOMAIN table |->
        LET score == Clip(WeightedSum(table, i, 1), 0, 100) IN
        [risk_score |-> score, risk_level |-> Cut(score, RiskBins, RiskLabels)]]

Categories(table) == {table[i].reason_category : i \in DOMAIN table}

\* Series.mean() of a column of Num: NaN cells skipped
RECURSIVE RSum(_, _)
RSum(col, S) ==
    IF S = {} THEN Int2Num(0)
    ELSE LET x == CHOOSE y \in S : TRUE IN RAdd(col[x], RSum(col, S \ {x}))
NumMean(col, rows) ==
    LET live == {i \in rows : ~col[i].nan} IN
    IF live = {} THEN NaN
    ELSE LET t == RSum(col, live) IN Rat(t.num, t.den * Cardinality(live))

risk_analysis_of(table) ==
    LET cols == RiskColumns(table)
        score == [i \in DOMAIN table |-> cols[i].risk_score]
        high == SelectIdx([i \in DOMAIN table |-> RGtInt(score[i], 75)], 1, Len(table))
    IN  [high_risk_prs |->
            [j \in DOMAIN high |->
                [pr_number |-> table[high[j]].pr_number,
                 risk_score |-> score[high[j]],
                 reason_category |-> table[high[j]].reason_category]],
         risk_distribution |->
            [l \in Range(RiskLabels) |->
                Cardinality({i \in DOMAIN table : cols[i].risk_level = Some(l)})],
         avg_risk_by_category |->
            [c \in Categories(table) |->
                NumMean(score, {i \in DOMAIN table : table[i].reason_category = c})]]


(***************************************************************************)
(* analyze_abandonment_patterns.  The model keeps the entries of           *)
(* insights['abandonment_patterns'] that generate_recommendations reads,   *)
(* and size_impact; author and repository lists are sets (their order and  *)
(* the [:10] cut are not modelled).                                        *)
(***************************************************************************)
is_abandoned(row) == row.reason_category \in {"abandoned", "stale", "failing_ci"}

\* Series.mode().tolist(): the most frequent values, ascending
RECURSIVE SortedSeq(_)
SortedSeq(S) ==
    IF S = {} THEN <<>>
    ELSE LET m == CHOOSE x \in S : \A y \in S : x <= y IN <<m>> \o SortedSeq(S \ {m})

ModeOf(vals) ==
    LET count(v) == Cardinality({i \in DOMAIN vals : vals[i] = v})
    IN  SortedSeq({v \in Range(vals) : \A w \in Range(vals) : count(w) <= count(v)})

\* round(2) of a rate, then "> h / 100" for an even h: ties round to even,
\* so the rounded rate exceeds h/100 exactly when the rate exceeds (h + 0.5)/100
Round2Gt(rate, h) == ~rate.nan /\ 200 * rate.num > (2 * h + 1) * rate.den

GroupRate(table, field, key) ==
    LET rows == SelectIdx([i \in DOMAIN table |-> table[i][field] = key], 1, Len(table))
    IN  Rate([j \in DOMAIN rows |-> is_abandoned(table[rows[j]])])

\* df[cond]['is_abandoned'].mean() if len(df[cond]) > 0 else 0
SizeRate(table, cond) ==
    LET rows == SelectIdx(cond, 1, Len(table))
    IN  IF Len(rows) > 0 THEN Rate([j \in DOMAIN rows |-> is_abandoned(table[rows[j]])])
        ELSE Int2Num(0)

abandonment_patterns_of(table) ==
    LET gone == SelectIdx([i \in DOMAIN table |-> is_abandoned(table[i])], 1, Len(table))
    IN  [time_patterns |->
            [high_risk_hours |->
                IF gone # <<>> THEN ModeOf([j \in DOMAIN gone |-> table[gone[j]].created_hour])
                ELSE <<>>],
         author_insights |->
            [high_abandonment_authors |->
                {a \in {table[i].author : i \in DOMAIN table} :
                    Round2Gt(GroupRate(table, "author", a), 50)}],
         repository_insights |->
            [problematic_repos |->
                {r \in {table[i].repository : i \in DOMAIN table} :
                    Round2Gt(GroupRate(table, "repository", r), 40)}],
         size_impact |->
            [small_prs |->
                SizeRate(table, [i \in DOMAIN table |-> table[i].total_changes < 100]),
             medium_prs |->
                SizeRate(table, [i \in DOMAIN table |->
                    table[i].total_changes >= 100 /\ table[i].total_changes < 500]),
             large_prs |->
                SizeRate(table, [i \in DOMAIN table |-> table[i].total_changes >= 500])]]

(***************************************************************************)
(* The k-means library (sklearn.cluster.KMeans), by its contract.  A fit   *)
(* raises unless 1 <= k <= number of rows.  Equal rows get equal labels;   *)
(* with m distinct rows, m >= k gives k non-empty clusters and m < k gives *)
(* every distinct row a cluster of its own.  Which such labelling comes    *)
(* out is a fixed function of the rows, k and the generator's stream.      *)
(***************************************************************************)
FirstOccurrences(X) ==
    SelectIdx([i \in DOMAIN X |-> \A j \in 1..(i - 1) : X[j] # X[i]], 1, Len(X))

Labelings(m, k) ==
    {l \in [1..m -> 0..(k - 1)] :
        IF m >= k THEN \A c \in 0..(k - 1) : \E i \in 1..m : l[i] = c
        ELSE \A i, j \in 1..m : l[i] = l[j] => i = j}

RECURSIVE LabelCode(_, _, _)
LabelCode(l, k, i) == IF i > Len(l) THEN 0 ELSE l[i] + k * LabelCode(l, k, i + 1)

KMeansDrawPerFit(X, k, stream, fits) ==
    LET firsts == FirstOccurrences(X)
        all == Labelings(Len(firsts), k)
        want == (stream + fits) % Cardinality(all)
        l == CHOOSE x \in all :
                Cardinality({y \in all : LabelCode(y, k, 1) < LabelCode(x, k, 1)}) = want
    IN  [i \in DOMAIN X |-> l[CHOOSE g \in DOMAIN firsts : X[firsts[g]] = X[i]]]

\* the same labelling with the cluster ids counted from 1
KMeansLabelsFromOne(X, k, stream, fits) ==
    LET firsts == FirstOccurrences(X)
        all == Labelings(Len(firsts), k)
        want == stream % Cardinality(all)
        l == CHOOSE x \in all :
                Cardinality({y \in all : LabelCode(y, k, 1) < LabelCode(x, k, 1)}) = want
    IN  [i \in DOMAIN X |-> l[CHOOSE g \in DOMAIN firsts : X[firsts[g]] = X[i]] + 1]

\* KMeans(n_clusters=k, random_state=42).fit_predict(X); fits is the number of
\* fits made before this one, which a generator reseeded per fit ignores
KMeansLabels(X, k, stream, fits) ==
    LET firsts == FirstOccurrences(X)
        all == Labelings(Len(firsts), k)
        want == stream % Cardinality(all)
        l == CHOOSE x \in all :
                Cardinality({y \in all : LabelCode(y, k, 1) < LabelCode(x, k, 1)}) = want
    IN  [i \in DOMAIN X |-> l[CHOOSE g \in DOMAIN firsts : X[firsts[g]] = X[i]]]

KMeansRaises(X, k) == k < 1 \/ Len(X) < k


(***************************************************************************)
(* perform_clustering and _describe_cluster of the stale-PR analyzer.      *)
(***************************************************************************)
CategoryOrder == <<"abandoned", "failing_ci", "stale", "unknown">>   \* alphabetical

\* Series.mode().iloc[0]: the most frequent category, the first alphabetically
DominantReason(table, rows) ==
    LET count(c) == Cardinality({i \in rows : table[i].reason_category = c})
        top == {p \in DOMAIN CategoryOrder :
                  \A q \in DOMAIN CategoryOrder :
                      count(CategoryOrder[q]) <= count(CategoryOrder[p])}
    IN  CategoryOrder[CHOOSE p \in top : \A q \in top : p <= q]

ColumnMean(table, rows, factor) == NumMean(Column(table, factor), rows)

_describe_cluster(table, rows) ==
    IF rows = {} THEN <<"Empty cluster">>
    ELSE LET avg_inactive == ColumnMean(table, rows, "inactive_days")
             avg_engagement == ColumnMean(table, rows, "engagement_score")
             avg_changes == ColumnMean(table, rows, "total_changes")
         IN  << IF RGtInt(avg_inactive, 60) THEN "Long-term inactive"
                ELSE IF RGtInt(avg_inactive, 30) THEN "Medium-term inactive"
                ELSE "Recently inactive",
                IF RGtInt(avg_engagement, 5) THEN "High engagement"
                ELSE IF RGtInt(avg_engagement, 2) THEN "Moderate engagement"
                ELSE "Low engagement",
                IF RGtInt(avg_changes, 1000) THEN "Large changes"
                ELSE IF RGtInt(avg_changes, 100) THEN "Medium changes"
                ELSE "Small changes" >>

\* a row of cluster_data: the five cluster features after fillna(0)
ClusterRow(row) ==
    << IF IsNone(row.inactive_days) THEN 0 ELSE Val(row.inactive_days),
       row.engagement_score, row.total_changes, row.check_failure_rate,
       row.commit_count >>

\* cluster_analysis['cluster_<i>'] for the rows labelled i
ClusterEntry(table, rows) ==
    [size |-> Cardinality(rows),
     avg_inactive_days |-> ColumnMean(table, rows, "inactive_days"),
     avg_engagement |-> ColumnMean(table, rows, "engagement_score"),
     avg_changes |-> ColumnMean(table, rows, "total_changes"),
     abandonment_rate |->
        IF rows = {} THEN NaN
        ELSE Rat(Cardinality({i \in rows :
                    table[i].reason_category \in {"abandoned", "stale"}}),
                 Cardinality(rows)),
     dominant_reason |-> IF rows # {} THEN DominantReason(table, rows) ELSE "unknown",
     characteristics |-> _describe_cluster(table, rows)]

\* the cluster count after the guard of lines 226-228
StaleClamp(n, n_clusters) ==
    IF n < n_clusters THEN (IF n > 1 THEN n ELSE 1) ELSE n_clusters

\* raised: an exception leaves the method; fitted: k-means ran to the end;
\* clustering: what insights['clustering'] holds afterwards, entry i + 1 of
\* the sequence being cluster_<i>
perform_clustering(data_opt, n_clusters, stream, fits) ==
    IF IsNone(data_opt) \/ Val(data_opt) = <<>>
    THEN \* None has no copy(); a frame built from no row has no columns
         [raised |-> TRUE, fitted |-> FALSE, k |-> n_clusters, clustering |-> None]
    ELSE LET table == Val(data_opt)
             X == [i \in DOMAIN table |-> ClusterRow(table[i])]
             k == StaleClamp(Len(table), n_clusters)
         IN  IF KMeansRaises(X, k)
             THEN [raised |-> FALSE, fitted |-> FALSE, k |-> k, clustering |-> Some(<<>>)]
             ELSE LET labels == KMeansLabels(X, k, stream, fits)
                  IN  [raised |-> FALSE, fitted |-> TRUE, k |-> k,
                       clustering |->
                          Some([c \in 1..k |->
                                  ClusterEntry(table,
                                      {i \in DOMAIN table : labels[i] = c - 1})])]


(***************************************************************************)
(* generate_recommendations.  A recommendation keeps its category, its     *)
(* priority and the data its suggestion text quotes.                       *)
(***************************************************************************)
Rec(category, priority, hours, count, characteristics) ==
    [category |-> category, priority |-> priority,
     about |-> [hours |-> hours, count |-> count, characteristics |-> characteristics]]

PatternRecs(ins) ==
    IF IsNone(ins.abandonment_patterns) THEN <<>>
    ELSE LET patterns == Val(ins.abandonment_patterns) IN
         (IF patterns.time_patterns.high_risk_hours # <<>>
          THEN <<Rec("Timing", "Medium", patterns.time_patterns.high_risk_hours, 0, <<>>)>>
          ELSE <<>>)
      \o (IF patterns.author_insights.high_abandonment_authors # {}
          THEN <<Rec("Team Management", "High", <<>>, 0, <<>>)>>
          ELSE <<>>)
      \o (IF patterns.repository_insights.problematic_repos # {}
          THEN <<Rec("Repository Health", "High", <<>>, 0, <<>>)>>
          ELSE <<>>)
      \o (IF ~patterns.size_impact.large_prs.nan
             /\ 2 * patterns.size_impact.large_prs.num > patterns.size_impact.large_prs.den
          THEN <<Rec("PR Guidelines", "Medium", <<>>, 0, <<>>)>>
          ELSE <<>>)

RiskRecs(ins) ==
    IF IsNone(ins.risk_analysis) THEN <<>>
    ELSE LET high_risk_count == Len(Val(ins.risk_analysis).high_risk_prs) IN
         IF high_risk_count > 5
         THEN <<Rec("Immediate Action", "Critical", <<>>, high_risk_count, <<>>)>>
         ELSE <<>>

RECURSIVE ClusterRecsFrom(_, _)
\* the loop over insights['clustering'].items(), from entry i on
ClusterRecsFrom(clusters, i) ==
    IF i > Len(clusters) THEN <<>>
    ELSE (IF ~clusters[i].abandonment_rate.nan
             /\ 10 * clusters[i].abandonment_rate.num > 7 * clusters[i].abandonment_rate.den
          THEN <<Rec("Workflow Optimization", "High", <<>>, 0, clusters[i].characteristics)>>
          ELSE <<>>)
         \o ClusterRecsFrom(clusters, i + 1)

ClusterRecs(ins) ==
    IF IsNone(ins.clustering) THEN <<>> ELSE ClusterRecsFrom(Val(ins.clustering), 1)

\* the same rules chained, each later block running only when the earlier
\* ones produced nothing
generate_recommendations_chained(ins) ==
    IF PatternRecs(ins) # <<>> THEN PatternRecs(ins)
    ELSE IF RiskRecs(ins) # <<>> THEN RiskRecs(ins)
    ELSE ClusterRecs(ins)

generate_recommendations(ins) == PatternRecs(ins) \o RiskRecs(ins) \o ClusterRecs(ins)


(***************************************************************************)
(* save_insights.  A Python object is a tagged tree; a dict is the list of *)
(* its items in insertion order.  json.dump yields a tree of JSON tokens.  *)
(***************************************************************************)
PyDict(items) == [kind |-> "dict", items |-> items]
PyList(items) == [kind |-> "list", items |-> items]
PyFloat(x) == [kind |-> "float", val |-> x]
NpFloat(x) == [kind |-> "np.floating", val |-> x]
PyInt(n) == [kind |-> "int", val |-> n]
NpInt(n) == [kind |-> "np.integer", val |-> n]
PyStr(str) == [kind |-> "str", val |-> str]
PyNone == [kind |-> "NoneType"]
\* float('inf'), kept as the quotient 1 / 0
Infinity == [nan |-> FALSE, num |-> 1, den |-> 0]
Item(key, value) == [key |-> key, value |-> value]

RECURSIVE SetToSeq(_)
SetToSeq(S) ==
    IF S = {} THEN <<>> ELSE LET x == CHOOSE y \in S : TRUE IN <<x>> \o SetToSeq(S \ {x})

StrList(strs) == PyList([i \in DOMAIN strs |-> PyStr(strs[i])])

PatternsTree(patterns) ==
    PyDict(<<
        Item("time_patterns", PyDict(<<
            Item("high_risk_hours",
                 PyList([i \in DOMAIN patterns.time_patterns.high_risk_hours |->
                            PyInt(patterns.time_patterns.high_risk_hours[i])]))>>)),
        Item("author_insights", PyDict(<<
            Item("high_abandonment_authors",
                 StrList(SetToSeq(patterns.author_insights.high_abandonment_authors)))>>)),
        Item("repository_insights", PyDict(<<
            Item("problematic_repos",
                 StrList(SetToSeq(patterns.repository_insights.problematic_repos)))>>)),
        \* a mean is a numpy float; the int 0 of an empty selection is a plain
        \* number as well and is carried here as the rate 0
        Item("size_impact", PyDict(<<
            Item("small_prs", NpFloat(patterns.size_impact.small_prs)),
            Item("medium_prs", NpFloat(patterns.size_impact.medium_prs)),
            Item("large_prs", NpFloat(patterns.size_impact.large_prs))>>))>>)

ClusteringTree(clusters) ==
    PyDict([i \in DOMAIN clusters |->
        Item(<<"cluster_", i - 1>>, PyDict(<<
            Item("size", PyInt(clusters[i].size)),
            Item("avg_inactive_days", PyFloat(clusters[i].avg_inactive_days)),
            Item("avg_engagement", PyFloat(clusters[i].avg_engagement)),
            Item("avg_changes", PyFloat(clusters[i].avg_changes)),
            Item("abandonment_rate", PyFloat(clusters[i].abandonment_rate)),
            Item("dominant_reason", PyStr(clusters[i].dominant_reason)),
            Item("characteristics", StrList(clusters[i].characteristics))>>))])

RiskTree(risk) ==
    LET cats == SetToSeq(DOMAIN risk.avg_risk_by_category) IN
    PyDict(<<
        Item("high_risk_prs",
             PyList([i \in DOMAIN risk.high_risk_prs |-> PyDict(<<
                 Item("pr_number", PyInt(risk.high_risk_prs[i].pr_number)),
                 Item("risk_score", PyFloat(risk.high_risk_prs[i].risk_score)),
                 Item("reason_category", PyStr(risk.high_risk_prs[i].reason_category))>>)])),
        Item("risk_distribution",
             PyDict([i \in DOMAIN RiskLabels |->
                 Item(RiskLabels[i], PyInt(risk.risk_distribution[RiskLabels[i]]))])),
        Item("avg_risk_by_category",
             PyDict([i \in DOMAIN cats |->
                 Item(cats[i], PyFloat(risk.avg_risk_by_category[cats[i]]))]))>>)

RecsTree(recs) ==
    PyList([i \in DOMAIN recs |-> PyDict(<<
        Item("category", PyStr(recs[i].category)),
        Item("priority", PyStr(recs[i].priority))>>)])

\* self.insights as a Python object: a key is present once its step has run
InsightsTree(ins) ==
    PyDict(
        (IF IsNone(ins.abandonment_patterns) THEN <<>>
         ELSE <<Item("abandonment_patterns", PatternsTree(Val(ins.abandonment_patterns)))>>)
     \o (IF IsNone(ins.clustering) THEN <<>>
         ELSE <<Item("clustering", ClusteringTree(Val(ins.clustering)))>>)
     \o (IF IsNone(ins.risk_analysis) THEN <<>>
         ELSE <<Item("risk_analysis", RiskTree(Val(ins.risk_analysis)))>>)
     \o (IF IsNone(ins.recommendations) THEN <<>>
         ELSE <<Item("recommendations", RecsTree(Val(ins.recommendations)))>>))

RECURSIVE convert_types(_)
\* the isinstance chain of save_insights.convert_types
convert_types(obj) ==
    CASE obj.kind = "np.integer" -> PyInt(obj.val)
      [] obj.kind = "np.floating" -> PyFloat(obj.val)
      [] obj.kind = "dict" ->
            PyDict([i \in DOMAIN obj.items |->
                       Item(obj.items[i].key, convert_types(obj.items[i].value))])
      [] obj.kind = "list" -> PyList([i \in DOMAIN obj.items |-> convert_types(obj.items[i])])
      [] OTHER -> obj

RECURSIVE json_dump(_)
\* json.dump(obj, default=str) with the default allow_nan=True: a float NaN
\* is written as the token NaN, an infinite float as the token Infinity; a
\* value json does not know is written as the string str(value)
json_dump(obj) ==
    CASE obj.kind = "dict" ->
            [tok |-> "object",
             members |-> [i \in DOMAIN obj.items |->
                             Item(obj.items[i].key, json_dump(obj.items[i].value))]]
      [] obj.kind = "list" ->
            [tok |-> "array", elements |-> [i \in DOMAIN obj.items |-> json_dump(obj.items[i])]]
      [] obj.kind \in {"float", "np.floating"} ->
            IF obj.val.nan THEN [tok |-> "NaN"]
            ELSE IF obj.val = Infinity THEN [tok |-> "Infinity"]
            ELSE [tok |-> "number", val |-> obj.val]
      [] obj.kind = "int" -> [tok |-> "number", val |-> Int2Num(obj.val)]
      [] obj.kind = "NoneType" -> [tok |-> "null"]
      [] obj.kind = "str" -> [tok |-> "string", val |-> obj.val]
      [] OTHER -> [tok |-> "string", val |-> obj.kind]

save_insights(ins) == json_dump(convert_types(InsightsTree(ins)))

RECURSIVE JsonTokens(_)
\* the kinds of token that occur in a JSON tree
JsonTokens(t) ==
    CASE t.tok = "object" ->
            {"object"} \cup UNION {JsonTokens(t.members[i].value) : i \in DOMAIN t.members}
      [] t.tok = "array" ->
            {"array"} \cup UNION {JsonTokens(t.elements[i]) : i \in DOMAIN t.elements}
      [] OTHER -> {t.tok}


(***************************************************************************)
(* The values the variables of a part of the program hold while another    *)
(* part is exercised.                                                      *)
(***************************************************************************)
MainIdle ==
    /\ pc = "idle"
    /\ args_clusters = 0
    /\ data = None
    /\ processed_data = None
    /\ insights = NoInsights
    /\ risk_df = None
    /\ out_file = None
    /\ exit_code = -1

ClusterIdle ==
    /\ engine = "none"
    /\ cl_input = None
    /\ cl_pc = "idle"
    /\ analyzer = None
    /\ runs = <<>>

AnomalyIdle ==
    /\ detector = "none"
    /\ column = <<>>
    /\ anomalies = None

RulesIdle ==
    /\ rule_input = None
    /\ rule_output = None

SerialIdle ==
    /\ serializer = "none"
    /\ sz_report = None
    /\ sz_written = None

RunsIdle ==
    /\ program = "none"
    /\ run_input = None
    /\ run_exit = -1
    /\ run_file = "none"

FeaturesIdle ==
    /\ extractor = "none"
    /\ fx_records = <<>>
    /\ features_df = None

ElbowIdle ==
    /\ elbow_input = None
    /\ optimal_k = None

MergeIdle ==
    /\ merge_input = None
    /\ merge_insights = None
CallsIdle ==
    /\ receiver = [class |-> "none"]
    /\ last_call = None
PatternsIdle ==
    /\ pattern_analyzer = None
    /\ pattern_runs = <<>>
PredictorIdle ==
    /\ predictor = None
    /\ predictor_call = None
    /\ conflict_block = None
AfterMergeIdle == CallsIdle /\ PatternsIdle /\ PredictorIdle
LateIdle == MergeIdle /\ AfterMergeIdle
StagesIdle == SerialIdle /\ RunsIdle /\ FeaturesIdle /\ ElbowIdle /\ LateIdle


(***************************************************************************)
(* main() of the stale-PR analyzer: one action per step of the try block.  *)
(* An exception in any step reaches the except clause: exit code 1.        *)
(***************************************************************************)
\* what --input names: an unreadable file (None) or a report with a list of
\* pull requests (an object without the list counts as the empty list)
InputFiles == {None} \cup {Some(prs) : prs \in PRLists}

Init ==
    /\ pc = "start"
    /\ args_clusters \in ClusterArgs
    /\ rng42 \in 0..MaxDraw
    /\ data = None
    /\ processed_data = None
    /\ insights = NoInsights
    /\ risk_df = None
    /\ out_file = None
    /\ exit_code = -1
    /\ engine = "none"
    /\ cl_input = None
    /\ cl_pc = "idle"
    /\ analyzer = None
    /\ runs = <<>>
    /\ detector = "none"
    /\ column = <<>>
    /\ anomalies = None
    /\ rule_input = None
    /\ rule_output = None
    /\ StagesIdle

Fail ==
    /\ pc' = "failed"
    /\ exit_code' = 1

LoadData ==
    /\ pc = "start"
    /\ \E file \in InputFiles :
          IF IsNone(file)
          THEN Fail /\ UNCHANGED data
          ELSE data' = file /\ pc' = "loaded" /\ UNCHANGED exit_code
    /\ UNCHANGED <<args_clusters, processed_data, insights, risk_df, out_file, rng42, sideVars>>

PrepareFeatures ==
    /\ pc = "loaded"
    /\ IF Val(data) = <<>>
       THEN Fail /\ UNCHANGED processed_data
       ELSE /\ processed_data' = Some(prepare_features(Val(data)))
            /\ pc' = "prepared"
            /\ UNCHANGED exit_code
    /\ UNCHANGED <<args_clusters, data, insights, risk_df, out_file, rng42, sideVars>>

AnalyzeAbandonmentPatterns ==
    /\ pc = "prepared"
    /\ IF Val(processed_data) = <<>>
       THEN \* the frame has no column reason_category
            Fail /\ UNCHANGED insights
       ELSE /\ insights' = [insights EXCEPT !.abandonment_patterns =
                                Some(abandonment_patterns_of(Val(processed_data)))]
            /\ pc' = "analyzed"
            /\ UNCHANGED exit_code
    /\ UNCHANGED <<args_clusters, data, processed_data, risk_df, out_file, rng42, sideVars>>

PerformClustering ==
    /\ pc = "analyzed"
    /\ LET r == perform_clustering(processed_data, args_clusters, rng42, 0) IN
       IF r.raised
       THEN Fail /\ UNCHANGED insights
       ELSE /\ insights' = [insights EXCEPT !.clustering = r.clustering]
            /\ pc' = "clustered"
            /\ UNCHANGED exit_code
    /\ UNCHANGED <<args_clusters, data, processed_data, risk_df, out_file, rng42, sideVars>>

PredictRiskScores ==
    /\ pc = "clustered"
    /\ risk_df' = Some(RiskColumns(Val(processed_data)))
    /\ insights' = [insights EXCEPT !.risk_analysis =
                       Some(risk_analysis_of(Val(processed_data)))]
    /\ pc' = "scored"
    /\ UNCHANGED <<args_clusters, data, processed_data, out_file, exit_code, rng42, sideVars>>

GenerateRecommendations ==
    /\ pc = "scored"
    /\ insights' = [insights EXCEPT !.recommendations =
                       Some(generate_recommendations(insights))]
    /\ pc' = "recommended"
    /\ UNCHANGED <<args_clusters, data, processed_data, risk_df, out_file, exit_code, rng42, sideVars>>

\* the save placed before generate_recommendations
SaveInsightsEarly ==
    /\ pc = "scored"
    /\ out_file' = Some(save_insights(insights))
    /\ pc' = "done"
    /\ exit_code' = 0
    /\ UNCHANGED <<args_clusters, data, processed_data, insights, risk_df, rng42, sideVars>>

SaveInsights ==
    /\ pc = "recommended"
    /\ out_file' = Some(save_insights(insights))
    /\ pc' = "done"
    /\ exit_code' = 0
    /\ UNCHANGED <<args_clusters, data, processed_data, insights, risk_df, rng42, sideVars>>

Next ==
    \/ LoadData
    \/ PrepareFeatures
    \/ AnalyzeAbandonmentPatterns
    \/ PerformClustering
    \/ PredictRiskScores
    \/ GenerateRecommendations
    \/ SaveInsights

Spec == Init /\ [][Next]_vars


(***************************************************************************)
(* The cluster engines of the report types.  A run of an engine is         *)
(* recorded as: the row count n (-1 when the analyzer holds no table), the *)
(* requested cluster count, whether an                                     *)
(* exception left the method, whether k-means ran to the end, the cluster  *)
(* count it ran with, the per-row assignments, the descriptive labels and  *)
(* the returned cluster set.                                               *)
(***************************************************************************)
Run(n, requested, raised, fitted, used, assignments, labels, clusters) ==
    [n |-> n, requested |-> requested, raised |-> raised, fitted |-> fitted,
     used |-> used, assignments |-> assignments, labels |-> labels, clusters |-> clusters]

Raised(n, requested) == Run(n, requested, TRUE, FALSE, 0, <<>>, <<>>, <<>>)
EmptyResult(n, requested) == Run(n, requested, FALSE, FALSE, 0, <<>>, <<>>, <<>>)

\* StalePRMLAnalyzer.perform_clustering as a run
StaleRun(data_opt, n_clusters, stream) ==
    LET n == IF IsNone(data_opt) THEN -1 ELSE Len(Val(data_opt))
        r == perform_clustering(data_opt, n_clusters, stream, 0)
    IN  IF r.raised THEN Raised(n, n_clusters)
        ELSE IF ~r.fitted THEN EmptyResult(n, n_clusters)
        ELSE LET table == Val(data_opt)
                 X == [i \in DOMAIN table |-> ClusterRow(table[i])]
                 clusters == Val(r.clustering)
             IN  Run(n, n_clusters, FALSE, TRUE, r.k, KMeansLabels(X, r.k, stream, 0),
                     [c \in DOMAIN clusters |-> clusters[c].characteristics], clusters)

\* LeadTimeMLAnalyzer._describe_cluster
LeadTimeDescribe(avg_hours) ==
    IF ~avg_hours.nan /\ avg_hours.num < 24 * avg_hours.den
    THEN "Fast Track - PRs processed within 24 hours"
    ELSE IF ~avg_hours.nan /\ avg_hours.num < 72 * avg_hours.den
    THEN "Standard Process - PRs processed within 3 days"
    ELSE IF ~avg_hours.nan /\ avg_hours.num < 168 * avg_hours.den
    THEN "Extended Review - PRs taking up to 1 week"
    ELSE "Long Cycle - PRs requiring extended development time"

\* LeadTimeMLAnalyzer.perform_clustering; a row is [LEAD_TIME_HOURS,
\* title_length]; available is the number of cluster features among the columns
LeadTimeRun(data_opt, available, n_clusters, stream) ==
    IF IsNone(data_opt) THEN Raised(-1, n_clusters)
    ELSE LET table == Val(data_opt)
             n == Len(table)
             X == [i \in DOMAIN table |->
                      <<table[i].LEAD_TIME_HOURS, table[i].title_length>>]
         IN  IF available < 2 THEN EmptyResult(n, n_clusters)
             ELSE IF KMeansRaises(X, n_clusters) THEN Raised(n, n_clusters)
             ELSE LET labels == KMeansLabels(X, n_clusters, stream, 0)
                      rows(c) == {i \in DOMAIN table : labels[i] = c - 1}
                      avg(c) == Mean([i \in DOMAIN table |->
                                        IF i \in rows(c) THEN Some(table[i].LEAD_TIME_HOURS)
                                        ELSE None])
                      clusters == [c \in 1..n_clusters |->
                                     [count |-> Cardinality(rows(c)),
                                      avg_lead_time_hours |-> avg(c),
                                      characteristics |-> LeadTimeDescribe(avg(c))]]
                  IN  Run(n, n_clusters, FALSE, TRUE, n_clusters, labels,
                          [c \in 1..n_clusters |-> clusters[c].characteristics], clusters)

\* the elbow that answers with the k after the largest decrease
_find_optimal_clusters_following(n, max_clusters, inertias) ==
    LET cap == IF max_clusters < n - 1 THEN max_clusters ELSE n - 1
        decrease(k) == inertias[k] - inertias[k + 1]
    IN  IF cap < 2 THEN 1
        ELSE IF cap < 3 THEN 2
        ELSE 1 + CHOOSE k \in 2..(cap - 1) :
                    /\ \A j \in 2..(cap - 1) : decrease(j) <= decrease(k)
                    /\ \A j \in 2..(k - 1) : decrease(j) < decrease(k)

\* CollaborationMLAnalyzer._find_optimal_clusters; inertias[k] is the inertia
\* the library reports for a fit with k clusters
_find_optimal_clusters(n, max_clusters, inertias) ==
    LET cap == IF max_clusters < n - 1 THEN max_clusters ELSE n - 1
        decrease(k) == inertias[k] - inertias[k + 1]
    IN  IF cap < 2 THEN 1
        ELSE IF cap < 3 THEN 2
        ELSE CHOOSE k \in 2..(cap - 1) :
                /\ \A j \in 2..(cap - 1) : decrease(j) <= decrease(k)
                /\ \A j \in 2..(k - 1) : decrease(j) < decrease(k)

\* CollaborationMLAnalyzer._describe_cluster on the cluster's column means
CollabDescribe(collaboration_score, activity_score, diversity_score) ==
    [collaboration_level |->
        IF RGtInt(collaboration_score, 15) THEN "High Collaborators"
        ELSE IF RGtInt(collaboration_score, 8) THEN "Moderate Collaborators"
        ELSE "Emerging Collaborators",
     activity_level |->
        IF RGtInt(activity_score, 20) THEN "Highly Active"
        ELSE IF RGtInt(activity_score, 10) THEN "Moderately Active"
        ELSE "Low Activity",
     network_reach |->
        IF RGtInt(diversity_score, 5) THEN "Broad Network"
        ELSE IF RGtInt(diversity_score, 2) THEN "Moderate Network"
        ELSE "Limited Network"]

\* CollaborationMLAnalyzer.perform_clustering; a row is [collaboration_score,
\* activity_score, diversity_score]; n_clusters is an option (None: elbow)
CollabRun(features_opt, n_clusters, stream, inertias) ==
    IF IsNone(features_opt) \/ Val(features_opt) = <<>>
    THEN \* normalize_data raises: no features, or a scaler fit on no row
         Raised(IF IsNone(features_opt) THEN -1 ELSE 0,
                IF IsNone(n_clusters) THEN 0 ELSE Val(n_clusters))
    ELSE LET table == Val(features_opt)
             n == Len(table)
             requested == IF IsNone(n_clusters)
                          THEN _find_optimal_clusters(n, 8, inertias)
                          ELSE Val(n_clusters)
             k == IF requested < n THEN requested ELSE n
             X == [i \in DOMAIN table |->
                      <<table[i].collaboration_score, table[i].activity_score,
                        table[i].diversity_score>>]
         IN  IF n < 2 THEN EmptyResult(n, IF IsNone(n_clusters) THEN 0 ELSE requested)
             ELSE IF k < 2
             THEN Run(n, requested, FALSE, FALSE, 0, [i \in 1..n |-> 0], <<>>, <<>>)
             ELSE LET labels == KMeansLabels(X, k, stream, 0)
                      rows(c) == {i \in DOMAIN table : labels[i] = c - 1}
                      avg(c, f) == Mean([i \in DOMAIN table |->
                                           IF i \in rows(c) THEN Some(table[i][f]) ELSE None])
                      clusters == [c \in 1..k |->
                                     [cluster_id |-> c - 1,
                                      size |-> Cardinality(rows(c)),
                                      characteristics |->
                                         CollabDescribe(avg(c, "collaboration_score"),
                                                        avg(c, "activity_score"),
                                                        avg(c, "diversity_score")),
                                      avg_collaboration_score |->
                                         avg(c, "collaboration_score")]]
                  IN  Run(n, requested, FALSE, TRUE, k, labels,
                          [c \in 1..k |-> clusters[c].characteristics], clusters)

\* an estimator object: KMeans(n_clusters=k, random_state=42), not yet fitted
NewKMeans(k) == [n_clusters |-> k, fits |-> 0]

\* CollaborationAnalyzer.__init__ of the sentiment report
CollaborationAnalyzer(n_clusters) ==
    [n_clusters |-> n_clusters, kmeans |-> NewKMeans(n_clusters)]

cluster_labels ==
    <<"Low Activity", "Standard Process", "High Engagement", "Review Heavy", "Fast Track">>

\* CollaborationAnalyzer.analyze_collaboration_patterns; a row holds the
\* cluster features total_comments, total_reviews, days_open and the target
\* column has_conflicts; available is the number of cluster features among
\* the columns.  Yields the analyzer afterwards and the run.
analyze_collaboration_patterns(self, table, available, stream) ==
    LET n == Len(table)
        requested == self.n_clusters
    IN  IF n = 0 \/ available < 3
        THEN [self |-> self, run |-> EmptyResult(n, requested)]
        ELSE LET clamp == n < self.n_clusters
                 k == IF clamp THEN n ELSE self.n_clusters
                 kmeans == IF clamp THEN NewKMeans(k) ELSE self.kmeans
                 after == [n_clusters |-> k,
                           kmeans |-> [kmeans EXCEPT !.fits = kmeans.fits + 1]]
                 X == [i \in DOMAIN table |->
                          <<table[i].total_comments, table[i].total_reviews,
                            table[i].days_open>>]
             IN  IF KMeansRaises(X, kmeans.n_clusters)
                 THEN \* caught by the except clause: {}
                      [self |-> [after EXCEPT !.kmeans = kmeans],
                       run |-> EmptyResult(n, requested)]
                 ELSE LET labels == KMeansLabels(X, kmeans.n_clusters, stream, kmeans.fits)
                          rows(c) == {i \in DOMAIN table : labels[i] = c - 1}
                          live == SelectIdx([c \in 1..k |-> rows(c) # {}], 1, k)
                          clusters ==
                             [j \in DOMAIN live |->
                                [name |-> IF live[j] <= Len(cluster_labels)
                                          THEN cluster_labels[live[j]] ELSE "Cluster_",
                                 id |-> live[j] - 1,
                                 size |-> Cardinality(rows(live[j])),
                                 avg_comments |->
                                    Mean([i \in DOMAIN table |->
                                            IF i \in rows(live[j])
                                            THEN Some(table[i].total_comments) ELSE None]),
                                 conflict_rate |->
                                    Mean([i \in DOMAIN table |->
                                            IF i \in rows(live[j])
                                            THEN Some(table[i].has_conflicts) ELSE None])]]
                      IN  [self |-> after,
                           run |-> Run(n, requested, FALSE, TRUE, k, labels,
                                       [j \in DOMAIN clusters |-> clusters[j].name],
                                       clusters)]

(***************************************************************************)
(* The lifecycle report.  A standardized column is kept exactly: cell i is *)
(* coef[i] / sqrt(root); a raw column has root 1.                          *)
(***************************************************************************)
RSub(a, b) == RAdd(a, RScale(b, -1))
RMul(a, b) == IF a.nan \/ b.nan THEN NaN ELSE Rat(a.num * b.num, a.den * b.den)
RMeanOf(col, rows) ==
    LET t == RSum(col, rows) IN Rat(t.num, t.den * Cardinality(rows))

RawColumn(ints) == [coef |-> [i \in DOMAIN ints |-> Int2Num(ints[i])], root |-> Int2Num(1)]

\* StandardScaler.fit_transform on one column: subtract the mean, divide by
\* the population standard deviation (by 1 when that is 0)
Standardize(col) ==
    LET idx == DOMAIN col.coef
        mu == RMeanOf(col.coef, idx)
        centred == [i \in idx |-> RSub(col.coef[i], mu)]
        var == RMeanOf([i \in idx |-> RMul(centred[i], centred[i])], idx)
    IN  IF REqInt(var, 0) THEN [coef |-> centred, root |-> Int2Num(1)]
        ELSE [coef |-> centred, root |-> var]

\* m / sqrt(root) > 1/2 and m / sqrt(root) < -1/2, for root > 0
AboveHalf(m, root) == RGtInt(m, 0) /\ RLess(root, RScale(RMul(m, m), 4))
BelowMinusHalf(m, root) == RLess(m, Int2Num(0)) /\ RLess(root, RScale(RMul(m, m), 4))

\* PRLifecycleMLAnalyzer after prepare_features: features_df (columnwise)
\* and the estimator made in __init__
PRLifecycleMLAnalyzer(rows) ==
    [cycle_time_hours |-> RawColumn([i \in DOMAIN rows |-> rows[i].cycle_time_hours]),
     review_time_hours |-> RawColumn([i \in DOMAIN rows |-> rows[i].review_time_hours]),
     is_merged |-> [i \in DOMAIN rows |-> rows[i].is_merged],
     clusterer |-> NewKMeans(4)]

\* PRLifecycleMLAnalyzer.normalize_data: in place; raises on a frame of no row
normalize_data(self) ==
    IF self.is_merged = <<>> THEN [self |-> self, raised |-> TRUE]
    ELSE [self |-> [self EXCEPT !.cycle_time_hours = Standardize(@),
                                !.review_time_hours = Standardize(@)],
          raised |-> FALSE]

\* PRLifecycleMLAnalyzer.cluster_pull_requests
cluster_pull_requests(self, stream) ==
    LET n == Len(self.is_merged)
        k == self.clusterer.n_clusters
        X == [i \in 1..n |->
                 <<self.cycle_time_hours.coef[i], self.cycle_time_hours.root,
                   self.review_time_hours.coef[i], self.review_time_hours.root>>]
    IN  IF KMeansRaises(X, k) THEN [self |-> self, run |-> Raised(n, k)]
        ELSE LET labels == KMeansLabels(X, k, stream, self.clusterer.fits)
                 rows(c) == {i \in 1..n : labels[i] = c}
                 avg_cycle(c) == RMeanOf(self.cycle_time_hours.coef, rows(c))
                 avg_review(c) == RMeanOf(self.review_time_hours.coef, rows(c))
                 merge_rate(c) == Rat(SumOver(self.is_merged, rows(c)), Cardinality(rows(c)))
                 label(c) ==
                    IF rows(c) = {} THEN [name |-> "Empty Cluster", id |-> c]
                    ELSE IF BelowMinusHalf(avg_cycle(c), self.cycle_time_hours.root)
                            /\ 5 * merge_rate(c).num > 4 * merge_rate(c).den
                    THEN [name |-> "Fast Track", id |-> -1]
                    ELSE IF AboveHalf(avg_cycle(c), self.cycle_time_hours.root)
                            /\ AboveHalf(avg_review(c), self.review_time_hours.root)
                    THEN [name |-> "Complex Review", id |-> -1]
                    ELSE IF 2 * merge_rate(c).num < merge_rate(c).den
                    THEN [name |-> "High Risk", id |-> -1]
                    ELSE [name |-> "Standard Process", id |-> -1]
                 cluster_names == [c \in 1..4 |-> label(c - 1)]
             IN  [self |-> [self EXCEPT !.clusterer.fits = @ + 1],
                  run |-> Run(n, k, FALSE, TRUE, k, labels, cluster_names, cluster_names)]

(***************************************************************************)
(* SpecCluster: a caller runs one report type's cluster engine up to       *)
(* MaxRuns times on the same input, on the same analyzer object or on a    *)
(* fresh one.                                                              *)
(***************************************************************************)
MaxRuns == 2

Engines == {"stale", "lead_time", "lifecycle", "collab", "sentiment"}

ClusterPRs == {BasePR, StalePR, NullDaysPR, NullAdditionsPR}
StaleTables ==
    {None} \cup {Some(prepare_features(prs)) : prs \in SeqsUpTo(ClusterPRs, MaxRows)}

LeadTimeRows ==
    {[LEAD_TIME_HOURS |-> 10, title_length |-> 5],
     [LEAD_TIME_HOURS |-> 100, title_length |-> 5],
     [LEAD_TIME_HOURS |-> 200, title_length |-> 9]}

LifecycleRows ==
    {[cycle_time_hours |-> 1, review_time_hours |-> 1, is_merged |-> 1],
     [cycle_time_hours |-> 9, review_time_hours |-> 9, is_merged |-> 1],
     [cycle_time_hours |-> 9, review_time_hours |-> 0, is_merged |-> 0]}
\* tables large enough for the four clusters of the lifecycle estimator
LifecycleFour ==
    <<[cycle_time_hours |-> 1, review_time_hours |-> 1, is_merged |-> 1],
      [cycle_time_hours |-> 2, review_time_hours |-> 1, is_merged |-> 1],
      [cycle_time_hours |-> 9, review_time_hours |-> 9, is_merged |-> 1],
      [cycle_time_hours |-> 4, review_time_hours |-> 0, is_merged |-> 0]>>
LifecycleFive ==
    Append(LifecycleFour, [cycle_time_hours |-> 1, review_time_hours |-> 1, is_merged |-> 1])

CollabRows ==
    {[collaboration_score |-> 20, activity_score |-> 30, diversity_score |-> 6],
     [collaboration_score |-> 10, activity_score |-> 12, diversity_score |-> 3],
     [collaboration_score |-> 1, activity_score |-> 0, diversity_score |-> 0]}
\* the inertias of fits with 2, 3, ... clusters, as the library reports them
InertiaProfiles == {[k \in 1..9 |-> 90 - 10 * k], [k \in 1..9 |-> IF k < 3 THEN 90 ELSE 9 - k]}

SentimentRows ==
    {[total_comments |-> 0, total_reviews |-> 0, days_open |-> 1, has_conflicts |-> 0],
     [total_comments |-> 8, total_reviews |-> 2, days_open |-> 3, has_conflicts |-> 1],
     [total_comments |-> 3, total_reviews |-> 1, days_open |-> 9, has_conflicts |-> 0]}

ClusterInputs(e) ==
    CASE e = "stale" ->
            {[table |-> t, k |-> k] : t \in StaleTables, k \in ClusterArgs}
      [] e = "lead_time" ->
            {[table |-> t, k |-> k, available |-> a] :
                t \in {None} \cup {Some(x) : x \in SeqsUpTo(LeadTimeRows, MaxRows)},
                k \in ClusterArgs, a \in {1, 2}}
      [] e = "lifecycle" ->
            {[table |-> t] :
                t \in SeqsUpTo(LifecycleRows, MaxRows) \cup {LifecycleFour, LifecycleFive}}
      [] e = "collab" ->
            {[table |-> t, k |-> k, inertias |-> p] :
                t \in {None} \cup {Some(x) : x \in SeqsUpTo(CollabRows, MaxRows)},
                k \in {None} \cup {Some(c) : c \in ClusterArgs},
                p \in InertiaProfiles}
      [] e = "sentiment" ->
            {[table |-> t, k |-> k, available |-> a] :
                t \in SeqsUpTo(SentimentRows, MaxRows),
                k \in ClusterArgs \cup {Len(cluster_labels)}, a \in {2, 3}}

\* the analyzer object as constructed for the input
FreshAnalyzer(e, in) ==
    CASE e = "lifecycle" -> PRLifecycleMLAnalyzer(in.table)
      [] e = "sentiment" -> CollaborationAnalyzer(in.k)
      [] OTHER -> None

InitCluster ==
    /\ pc = "idle"
    /\ args_clusters = 0
    /\ data = None
    /\ processed_data = None
    /\ insights = NoInsights
    /\ risk_df = None
    /\ out_file = None
    /\ exit_code = -1
    /\ rng42 \in 0..MaxDraw
    /\ engine \in Engines
    /\ cl_input \in ClusterInputs(engine)
    /\ cl_pc = "ready"
    /\ analyzer = FreshAnalyzer(engine, cl_input)
    /\ runs = <<>>
    /\ detector = "none"
    /\ column = <<>>
    /\ anomalies = None
    /\ rule_input = None
    /\ rule_output = None
    /\ StagesIdle

RunStale ==
    /\ engine = "stale" /\ Len(runs) < MaxRuns
    /\ runs' = Append(runs, StaleRun(cl_input.table, cl_input.k, rng42))
    /\ UNCHANGED <<mainVars, rng42, stageVars, engine, cl_input, cl_pc, analyzer, anomalyVars, ruleVars>>

RunLeadTime ==
    /\ engine = "lead_time" /\ Len(runs) < MaxRuns
    /\ runs' = Append(runs, LeadTimeRun(cl_input.table, cl_input.available,
                                        cl_input.k, rng42))
    /\ UNCHANGED <<mainVars, rng42, stageVars, engine, cl_input, cl_pc, analyzer, anomalyVars, ruleVars>>

RunCollab ==
    /\ engine = "collab" /\ Len(runs) < MaxRuns
    /\ runs' = Append(runs, CollabRun(cl_input.table, cl_input.k, rng42,
                                      cl_input.inertias))
    /\ UNCHANGED <<mainVars, rng42, stageVars, engine, cl_input, cl_pc, analyzer, anomalyVars, ruleVars>>

RunSentiment ==
    /\ engine = "sentiment" /\ Len(runs) < MaxRuns
    /\ LET r == analyze_collaboration_patterns(analyzer, cl_input.table,
                                               cl_input.available, rng42)
       IN  analyzer' = r.self /\ runs' = Append(runs, r.run)
    /\ UNCHANGED <<mainVars, rng42, stageVars, engine, cl_input, cl_pc, anomalyVars, ruleVars>>

LifecycleNormalize ==
    /\ engine = "lifecycle" /\ cl_pc = "ready" /\ Len(runs) < MaxRuns
    /\ LET r == normalize_data(analyzer) IN
       IF r.raised
       THEN runs' = Append(runs, Raised(0, analyzer.clusterer.n_clusters))
            /\ UNCHANGED <<analyzer, cl_pc>>
       ELSE analyzer' = r.self /\ cl_pc' = "normalized" /\ UNCHANGED runs
    /\ UNCHANGED <<mainVars, rng42, stageVars, engine, cl_input, anomalyVars, ruleVars>>

LifecycleCluster ==
    /\ engine = "lifecycle" /\ cl_pc = "normalized"
    /\ LET r == cluster_pull_requests(analyzer, rng42)
       IN  analyzer' = r.self /\ runs' = Append(runs, r.run)
    /\ cl_pc' = "ready"
    /\ UNCHANGED <<mainVars, rng42, stageVars, engine, cl_input, anomalyVars, ruleVars>>

\* the caller builds a new analyzer object for its next run
NewAnalyzer ==
    /\ cl_pc = "ready" /\ runs # <<>> /\ Len(runs) < MaxRuns
    /\ analyzer # FreshAnalyzer(engine, cl_input)
    /\ analyzer' = FreshAnalyzer(engine, cl_input)
    /\ UNCHANGED <<mainVars, rng42, stageVars, engine, cl_input, cl_pc, runs, anomalyVars, ruleVars>>

NextCluster ==
    \/ RunStale
    \/ RunLeadTime
    \/ RunCollab
    \/ RunSentiment
    \/ LifecycleNormalize
    \/ LifecycleCluster
    \/ NewAnalyzer

SpecCluster == InitCluster /\ [][NextCluster]_vars

(***************************************************************************)
(* Claims about the risk scorer (checked under Spec).                      *)
(***************************************************************************)
Scored == ~IsNone(risk_df)
Score(i) == Val(risk_df)[i].risk_score
Level(i) == Val(risk_df)[i].risk_level
InRange(x, lo, hi) == RLeq(Int2Num(lo), x) /\ RLeq(x, Int2Num(hi))

\* C1: for every prepared table of n >= 1 rows, predict_risk_scores yields
\* exactly n risk scores, and every score lies in [0,100] after clipping.
C1_ScoresInRange ==
    Scored =>
        /\ Len(Val(risk_df)) = Len(Val(processed_data))
        /\ \A i \in DOMAIN Val(risk_df) : InRange(Score(i), 0, 100)

\* C2: scenario A, inactive_days = [5 x 9, 95, 97, 99] and every other
\* factor at its default: the last three rows are High or Critical and each
\* of the first nine rows is Low or Medium.
C2_ScenarioABuckets ==
    (Scored /\ data = Some(ScenarioA)) =>
        /\ \A i \in 10..12 : Level(i) \in {Some("High"), Some("Critical")}
        /\ \A i \in 1..9 : Level(i) \in {Some("Low"), Some("Medium")}

\* C3 as stated: buckets are inclusive at the lower cut point and exclusive
\* at the upper one, the top bucket also holding 100 (0 Low, 25 Medium,
\* 50 High, 75 Critical, 100 Critical); a score in [0,100] has one bucket.
C3_LowerInclusiveBuckets ==
    Scored =>
        \A i \in DOMAIN Val(risk_df) :
            InRange(Score(i), 0, 100) =>
                Level(i) = Some(IF RLess(Score(i), Int2Num(25)) THEN "Low"
                                ELSE IF RLess(Score(i), Int2Num(50)) THEN "Medium"
                                ELSE IF RLess(Score(i), Int2Num(75)) THEN "High"
                                ELSE "Critical")

\* C3 as the code has it: buckets are exclusive at the lower cut point and
\* inclusive at the upper one, the lowest bucket also holding 0 (0 Low,
\* 25 Low, 50 Medium, 75 High, 100 Critical); a score in [0,100] has
\* exactly one bucket.
C3_UpperInclusiveBuckets ==
    Scored =>
        \A i \in DOMAIN Val(risk_df) :
            InRange(Score(i), 0, 100) =>
                Level(i) = Some(IF RLeq(Score(i), Int2Num(25)) THEN "Low"
                                ELSE IF RLeq(Score(i), Int2Num(50)) THEN "Medium"
                                ELSE IF RLeq(Score(i), Int2Num(75)) THEN "High"
                                ELSE "Critical")

\* a scored table with rows exactly on the cut points 25 and 50
C3_OnCutPoints ==
    /\ Scored
    /\ \E i \in DOMAIN Val(risk_df) : REqInt(Score(i), 25) /\ Level(i) = Some("Low")
    /\ \E i \in DOMAIN Val(risk_df) : REqInt(Score(i), 50) /\ Level(i) = Some("Medium")


\* C10: the serialized insights contain no NaN, no Infinity and no
\* library-specific numeric value: every leaf of the written tree is null,
\* a boolean, a finite number or a string.
C10_OnlyJsonValues ==
    ~IsNone(out_file) =>
        JsonTokens(Val(out_file)) \subseteq
            {"object", "array", "number", "string", "null", "true", "false"}

(***************************************************************************)
(* Claims about the cluster engines (checked under SpecCluster).           *)
(***************************************************************************)
\* C4: for any requested cluster count k and any table of n rows with k > n,
\* the cluster engine of every report type clusters with at most n clusters
\* and does not raise.
C4_ClampedWhenTooFewRows ==
    \A i \in DOMAIN runs :
        (runs[i].n >= 0 /\ runs[i].requested > runs[i].n) =>
            ~runs[i].raised /\ runs[i].used <= runs[i].n

\* C5: clustering of a table never raises to its caller; when k-means does
\* not run to the end the result is empty.
C5_ClusteringNeverRaises ==
    \A i \in DOMAIN runs :
        runs[i].n >= 0 =>
            /\ ~runs[i].raised
            /\ ~runs[i].fitted => runs[i].clusters = <<>>

\* C6: with fewer than 2 rows clustering is skipped: k-means is not
\* attempted, the returned cluster set is empty and no error is raised.
C6_SkippedBelowTwoRows ==
    \A i \in DOMAIN runs :
        (runs[i].n >= 0 /\ runs[i].n < 2) =>
            ~runs[i].raised /\ ~runs[i].fitted /\ runs[i].clusters = <<>>

\* C7: two runs of the cluster engine on identical input with the fixed
\* seed 42 yield identical cluster assignments and identical descriptive
\* labels, whether the second run reuses the analyzer object or not.
C7_RunsAgree ==
    \A i, j \in DOMAIN runs :
        /\ runs[i].raised = runs[j].raised
        /\ runs[i].assignments = runs[j].assignments
        /\ runs[i].labels = runs[j].labels

\* two fits on one reused estimator, the rows spread over several clusters
C7_SecondRunOnSameObject ==
    /\ Len(runs) = 2
    /\ runs[1].fitted /\ runs[2].fitted
    /\ \E a, b \in DOMAIN runs[1].assignments :
          runs[1].assignments[a] # runs[1].assignments[b]
    /\ \/ engine = "sentiment" /\ analyzer.kmeans.fits = 2
       \/ engine = "lifecycle" /\ analyzer.clusterer.fits = 2


(***************************************************************************)
(* The anomaly detectors.  A column is a sequence of integers.  Quartiles  *)
(* are interpolated linearly (pandas' default) and kept times 4, the       *)
(* bounds Q1 - 1.5 IQR and Q3 + 1.5 IQR times 8.                           *)
(***************************************************************************)
\* the k-th smallest cell of the column, k in 1..Len(col)
Nth(col, k) ==
    CHOOSE v \in Range(col) :
        /\ Cardinality({i \in DOMAIN col : col[i] < v}) < k
        /\ k <= Cardinality({i \in DOMAIN col : col[i] <= v})

\* 4 * Series.quantile(q4 / 4)
Quantile4(col, q4) ==
    LET h == q4 * (Len(col) - 1)
        lo == h \div 4
        r == h % 4
    IN  IF r = 0 THEN 4 * Nth(col, lo + 1)
        ELSE (4 - r) * Nth(col, lo + 1) + r * Nth(col, lo + 2)

lower_bound8(col) == 5 * Quantile4(col, 1) - 3 * Quantile4(col, 3)
upper_bound8(col) == 5 * Quantile4(col, 3) - 3 * Quantile4(col, 1)

\* the comparison with the bounds themselves counted as outside
OutsideBoundsInclusive(col, i) ==
    8 * col[i] <= lower_bound8(col) \/ 8 * col[i] >= upper_bound8(col)

OutsideBounds(col, i) ==
    8 * col[i] < lower_bound8(col) \/ 8 * col[i] > upper_bound8(col)

ColSum(col) == SumOver(col, DOMAIN col)
ColSumSq(col) == SumOver([i \in DOMAIN col |-> col[i] * col[i]], DOMAIN col)

RECURSIVE GcdOf(_, _)
GcdOf(col, i) == IF i > Len(col) THEN 0 ELSE Gcd(Abs(col[i]), GcdOf(col, i + 1))

\* the column divided by the common divisor of its cells: the deviation
\* tests below compare |x - mean| with a multiple of std, which holds for
\* a column exactly when it holds for the column times a positive factor
Reduced(col) ==
    LET g == GcdOf(col, 1) IN
    IF g <= 1 THEN col ELSE [i \in DOMAIN col |-> col[i] \div g]

\* |col[i] - mean| > (p / q) * std, std the sample standard deviation
\* (ddof = 1); False when std is NaN (one cell) or 0 (all cells equal)
DeviatesBy(column_, i, p, q) ==
    LET col == Reduced(column_)
        n == Len(col)
        dev == n * col[i] - ColSum(col)              \* n * (x - mean)
        spread == n * ColSumSq(col) - ColSum(col) * ColSum(col)  \* n (n-1) var
    IN  IF n < 2 \/ spread = 0 THEN FALSE
        ELSE \* dev^2 / n^2 > p^2 / q^2 * spread / (n (n - 1))
             q * q * dev * dev > (p * p * n * spread) \div (n - 1)

\* MergeReadinessMLAnalyzer.detect_anomalies on the rows of one metric_type
detect_anomalies(col) ==
    LET hit == SelectIdx([i \in DOMAIN col |-> OutsideBounds(col, i)], 1, Len(col))
    IN  [j \in DOMAIN hit |->
            [row |-> hit[j], value |-> col[hit[j]],
             expected_range |-> Some(<<lower_bound8(col), upper_bound8(col)>>),
             severity |-> Some(IF DeviatesBy(col, hit[j], 2, 1)
                               THEN "high" ELSE "medium")]]

\* CollaborationMLAnalyzer._detect_anomalies on one numeric column
_detect_anomalies(col) ==
    LET hit == SelectIdx([i \in DOMAIN col |->
                            Len(col) > 2 /\ DeviatesBy(col, i, 5, 2)], 1, Len(col))
    IN  [j \in DOMAIN hit |->
            [row |-> hit[j], value |-> col[hit[j]],
             expected_range |-> None, severity |-> None]]

\* LeadTimeMLAnalyzer.predictive_insights, anomaly_detection: the rows above
\* Q3 + 1.5 IQR; the report holds their count and the threshold only
lead_time_anomalies(col) ==
    LET hit == SelectIdx([i \in DOMAIN col |-> 8 * col[i] > upper_bound8(col)],
                         1, Len(col))
    IN  [j \in DOMAIN hit |->
            [row |-> hit[j], value |-> col[hit[j]],
             expected_range |-> None, severity |-> None]]

\* PRLifecycleMLAnalyzer.identify_outliers on one numeric column
identify_outliers(col) ==
    LET hit == SelectIdx([i \in DOMAIN col |-> OutsideBounds(col, i)], 1, Len(col))
    IN  [j \in DOMAIN hit |->
            [row |-> hit[j], value |-> col[hit[j]],
             expected_range |-> None, severity |-> None]]


(***************************************************************************)
(* SpecAnomaly: one detector is applied to one metric column.              *)
(***************************************************************************)
MaxCol == 4

Detectors == {"merge_readiness", "collab", "lifecycle", "lead_time"}
MetricValues == {0, 10, 1000}

\* spec.md, anomaly scenario: 20 values of 10 plus one injected 1000, and
\* 20 identical values
SpikeColumn == [i \in 1..21 |-> IF i <= 20 THEN 10 ELSE 1000]
FlatColumn == [i \in 1..20 |-> 10]
\* five values of 10 and one 1000: the 1000 lies 2.04 standard deviations
\* from the mean
MildSpikeColumn == [i \in 1..6 |-> IF i <= 5 THEN 10 ELSE 1000]

Columns ==
    (SeqsUpTo(MetricValues, MaxCol) \ {<<>>})
        \cup {SpikeColumn, FlatColumn, MildSpikeColumn}

InitAnomaly ==
    /\ pc = "idle"
    /\ args_clusters = 0
    /\ data = None
    /\ processed_data = None
    /\ insights = NoInsights
    /\ risk_df = None
    /\ out_file = None
    /\ exit_code = -1
    /\ rng42 = 0
    /\ engine = "none"
    /\ cl_input = None
    /\ cl_pc = "idle"
    /\ analyzer = None
    /\ runs = <<>>
    /\ detector \in Detectors
    /\ column \in Columns
    /\ anomalies = None
    /\ rule_input = None
    /\ rule_output = None
    /\ StagesIdle

DetectMergeReadiness ==
    /\ detector = "merge_readiness" /\ anomalies = None
    /\ anomalies' = Some(detect_anomalies(column))
    /\ UNCHANGED <<mainVars, rng42, stageVars, clusterVars, detector, column, ruleVars>>

DetectCollab ==
    /\ detector = "collab" /\ anomalies = None
    /\ anomalies' = Some(_detect_anomalies(column))
    /\ UNCHANGED <<mainVars, rng42, stageVars, clusterVars, detector, column, ruleVars>>

DetectLifecycle ==
    /\ detector = "lifecycle" /\ anomalies = None
    /\ anomalies' = Some(identify_outliers(column))
    /\ UNCHANGED <<mainVars, rng42, stageVars, clusterVars, detector, column, ruleVars>>

DetectLeadTime ==
    /\ detector = "lead_time" /\ anomalies = None
    /\ anomalies' = Some(lead_time_anomalies(column))
    /\ UNCHANGED <<mainVars, rng42, stageVars, clusterVars, detector, column, ruleVars>>

NextAnomaly ==
    \/ DetectMergeReadiness
    \/ DetectCollab
    \/ DetectLifecycle
    \/ DetectLeadTime

SpecAnomaly == InitAnomaly /\ [][NextAnomaly]_vars

\* C8: for a metric column of 20 values of 10 and one value of 1000, the
\* row with 1000 is flagged as an anomaly with severity High; for a column
\* of 20 identical values no anomaly is produced.
C8_SpikeFlaggedHigh ==
    ~IsNone(anomalies) =>
        /\ column = SpikeColumn =>
              \E j \in DOMAIN Val(anomalies) :
                  /\ Val(anomalies)[j].row = 21
                  /\ Val(anomalies)[j].severity = Some("high")
        /\ column = FlatColumn => Val(anomalies) = <<>>

\* C19: a row is reported exactly when its value lies outside
\* [Q1 - 1.5 IQR, Q3 + 1.5 IQR]; every reported anomaly carries these
\* bounds as its expected range, and its severity is high exactly when the
\* value is more than 2.5 standard deviations from the column mean,
\* otherwise medium.
C19_IqrBoundsAndSeverity ==
    ~IsNone(anomalies) =>
        /\ \A i \in DOMAIN column :
              (\E j \in DOMAIN Val(anomalies) : Val(anomalies)[j].row = i)
                  <=> OutsideBounds(column, i)
        /\ \A j \in DOMAIN Val(anomalies) :
              /\ Val(anomalies)[j].expected_range =
                    Some(<<lower_bound8(column), upper_bound8(column)>>)
              /\ Val(anomalies)[j].severity =
                    Some(IF DeviatesBy(column, Val(anomalies)[j].row, 5, 2)
                         THEN "high" ELSE "medium")

\* the column has fewer than 3 rows, or all its values are equal
Degenerate(col) == Len(col) < 3 \/ \A i, j \in DOMAIN col : col[i] = col[j]

\* C20: a column with fewer than 3 rows, or whose values are all equal,
\* produces no anomaly in any detector.
C20_NoAnomalyOnDegenerateColumn ==
    (~IsNone(anomalies) /\ Degenerate(column)) => Val(anomalies) = <<>>

\* an IQR detector ran on the column of 20 identical values, and a
\* detector ran on a column of two different values
C20_DetectorRanOnDegenerateColumn ==
    /\ ~IsNone(anomalies)
    /\ \/ column = FlatColumn /\ detector \in {"merge_readiness", "lifecycle"}
       \/ column = <<0, 1000>> /\ detector = "collab"


(***************************************************************************)
(* InsightGenerator._generate_recommendations of the sentiment report.     *)
(* df is given by the means of the columns the rules read (None: the       *)
(* column is absent, the rule then reads the mean of [0]); ml_results by   *)
(* the conflict rates of collaboration_analysis.cluster_analysis (None:    *)
(* no such section).                                                       *)
(***************************************************************************)
ColumnMeanOr0(mean_opt) == IF IsNone(mean_opt) THEN Int2Num(0) ELSE Val(mean_opt)

_generate_recommendations(df, ml_results) ==
    IF df.empty THEN <<>>
    ELSE LET avg_conflicts == ColumnMeanOr0(df.conflict_count)
             avg_sentiment == ColumnMeanOr0(df.sentiment_score)
             avg_days_open == ColumnMeanOr0(df.days_open)
             rates == IF IsNone(ml_results.collaboration_analysis) THEN <<>>
                      ELSE Val(ml_results.collaboration_analysis)
         IN  (IF ~avg_conflicts.nan /\ 2 * avg_conflicts.num > avg_conflicts.den
              THEN <<Rec("Conflict Reduction", "High", <<>>, 0, <<>>)>> ELSE <<>>)
          \o (IF ~avg_sentiment.nan /\ 10 * avg_sentiment.num < -avg_sentiment.den
              THEN <<Rec("Team Morale", "Medium", <<>>, 0, <<>>)>> ELSE <<>>)
          \o (IF \E c \in DOMAIN rates :
                    ~rates[c].nan /\ 10 * rates[c].num > 3 * rates[c].den
              THEN <<Rec("Process Improvement", "Medium", <<>>, 0, <<>>)>> ELSE <<>>)
          \o (IF RGtInt(avg_days_open, 7)
              THEN <<Rec("Efficiency", "Medium", <<>>, 0, <<>>)>> ELSE <<>>)

(***************************************************************************)
(* SpecRules: a recommendation synthesizer is applied to a set of          *)
(* aggregates and to the same set with one aggregate removed or zeroed.    *)
(***************************************************************************)
StaleAggregates ==
    {"time_patterns", "author_insights", "repository_insights", "size_impact",
     "risk_analysis", "clustering"}
SentimentAggregates ==
    {"conflict_count", "sentiment_score", "days_open", "collaboration_analysis"}

\* the recommendation category whose rule reads the aggregate
CategoryOf(aggregate) ==
    CASE aggregate = "time_patterns" -> "Timing"
      [] aggregate = "author_insights" -> "Team Management"
      [] aggregate = "repository_insights" -> "Repository Health"
      [] aggregate = "size_impact" -> "PR Guidelines"
      [] aggregate = "risk_analysis" -> "Immediate Action"
      [] aggregate = "clustering" -> "Workflow Optimization"
      [] aggregate = "conflict_count" -> "Conflict Reduction"
      [] aggregate = "sentiment_score" -> "Team Morale"
      [] aggregate = "days_open" -> "Efficiency"
      [] aggregate = "collaboration_analysis" -> "Process Improvement"

PatternInputs ==
    {None} \cup
    {Some([time_patterns |-> [high_risk_hours |-> h],
           author_insights |-> [high_abandonment_authors |-> a],
           repository_insights |-> [problematic_repos |-> r],
           size_impact |-> [small_prs |-> Int2Num(0), medium_prs |-> Int2Num(0),
                            large_prs |-> l]]) :
        h \in {<<>>, <<9>>}, a \in {{}, {"bob"}}, r \in {{}, {"r1"}},
        l \in {Int2Num(0), Rat(1, 2), Int2Num(1)}}

HighRiskRow(i) == [pr_number |-> i, risk_score |-> Int2Num(80), reason_category |-> "stale"]
RiskInputs ==
    {None} \cup {Some([high_risk_prs |-> [i \in 1..m |-> HighRiskRow(i)]]) : m \in {0, 5, 6}}

ClusterWithRate(rate) ==
    [size |-> 1, avg_inactive_days |-> Int2Num(90), avg_engagement |-> Int2Num(0),
     avg_changes |-> Int2Num(0), abandonment_rate |-> rate, dominant_reason |-> "stale",
     characteristics |-> <<"Long-term inactive", "Low engagement", "Small changes">>]
ClusteringInputs ==
    {None, Some(<<>>), Some(<<ClusterWithRate(Rat(7, 10))>>),
     Some(<<ClusterWithRate(Int2Num(1)), ClusterWithRate(NaN), ClusterWithRate(Rat(4, 5))>>)}

StaleRuleInputs ==
    {[report |-> "stale",
      ins |-> [abandonment_patterns |-> p, clustering |-> c, risk_analysis |-> k,
               recommendations |-> None],
      drop |-> d, remove |-> m] :
        p \in PatternInputs, c \in ClusteringInputs, k \in RiskInputs,
        d \in StaleAggregates, m \in BOOLEAN}

SentimentRuleInputs ==
    {[report |-> "sentiment",
      df |-> [empty |-> e, conflict_count |-> cc, sentiment_score |-> ss, days_open |-> dd],
      ml_results |-> [collaboration_analysis |-> ca],
      drop |-> d] :
        e \in BOOLEAN,
        cc \in {None, Some(Rat(1, 2)), Some(Int2Num(1))},
        ss \in {None, Some(Int2Num(0)), Some(Rat(-1, 5))},
        dd \in {None, Some(Int2Num(7)), Some(Int2Num(8))},
        ca \in {None, Some(<<>>), Some(<<Rat(3, 10)>>), Some(<<Rat(2, 5), NaN>>)},
        d \in SentimentAggregates}

\* insights with one aggregate removed (the key or section is absent) or
\* zeroed (present, but empty or 0)
WithoutAggregate(ins, aggregate, remove) ==
    CASE aggregate = "risk_analysis" ->
            [ins EXCEPT !.risk_analysis =
                IF remove \/ IsNone(@) THEN None ELSE Some([high_risk_prs |-> <<>>])]
      [] aggregate = "clustering" ->
            [ins EXCEPT !.clustering = IF remove \/ IsNone(@) THEN None ELSE Some(<<>>)]
      [] OTHER ->
            IF IsNone(ins.abandonment_patterns) THEN ins
            ELSE LET patterns == Val(ins.abandonment_patterns) IN
                 [ins EXCEPT !.abandonment_patterns = Some(
                    CASE aggregate = "time_patterns" ->
                            [patterns EXCEPT !.time_patterns.high_risk_hours = <<>>]
                      [] aggregate = "author_insights" ->
                            [patterns EXCEPT !.author_insights.high_abandonment_authors = {}]
                      [] aggregate = "repository_insights" ->
                            [patterns EXCEPT !.repository_insights.problematic_repos = {}]
                      [] aggregate = "size_impact" ->
                            [patterns EXCEPT !.size_impact.large_prs = Int2Num(0)])]

InitRules ==
    /\ pc = "idle"
    /\ args_clusters = 0
    /\ data = None
    /\ processed_data = None
    /\ insights = NoInsights
    /\ risk_df = None
    /\ out_file = None
    /\ exit_code = -1
    /\ rng42 = 0
    /\ engine = "none"
    /\ cl_input = None
    /\ cl_pc = "idle"
    /\ analyzer = None
    /\ runs = <<>>
    /\ detector = "none"
    /\ column = <<>>
    /\ anomalies = None
    /\ rule_input \in StaleRuleInputs \cup SentimentRuleInputs
    /\ rule_output = None
    /\ StagesIdle

\* generate_recommendations on the insights and on the insights without
\* the aggregate rule_input.drop
SynthesizeStale ==
    /\ rule_input.report = "stale" /\ rule_output = None
    /\ rule_output' =
          Some([full |-> generate_recommendations(rule_input.ins),
                without |-> generate_recommendations(
                    WithoutAggregate(rule_input.ins, rule_input.drop, rule_input.remove))])
    /\ UNCHANGED <<mainVars, rng42, stageVars, clusterVars, anomalyVars, rule_input>>

SynthesizeSentiment ==
    /\ rule_input.report = "sentiment" /\ rule_output = None
    /\ rule_output' =
          Some([full |-> _generate_recommendations(rule_input.df, rule_input.ml_results),
                without |->
                    IF rule_input.drop = "collaboration_analysis"
                    THEN _generate_recommendations(rule_input.df,
                                                   [collaboration_analysis |-> None])
                    ELSE _generate_recommendations(
                            [rule_input.df EXCEPT ![rule_input.drop] = None],
                            rule_input.ml_results)])
    /\ UNCHANGED <<mainVars, rng42, stageVars, clusterVars, anomalyVars, rule_input>>

NextRules ==
    \/ SynthesizeStale
    \/ SynthesizeSentiment

SpecRules == InitRules /\ [][NextRules]_vars

\* the recommendations of the rules that do not read the aggregate
RECURSIVE OtherRules(_, _)
OtherRules(recs, aggregate) ==
    IF recs = <<>> THEN <<>>
    ELSE (IF recs[1].category = CategoryOf(aggregate) THEN <<>> ELSE <<recs[1]>>)
         \o OtherRules(Tail(recs), aggregate)

\* C9: removing or zeroing one aggregate does not change which
\* recommendations are produced by the rules that read other aggregates.
C9_RuleIsolation ==
    ~IsNone(rule_output) =>
        OtherRules(Val(rule_output).full, rule_input.drop)
            = OtherRules(Val(rule_output).without, rule_input.drop)

\* the removed aggregate had produced a recommendation, and a rule reading
\* another aggregate still produces one
C9_DroppedRuleFired ==
    /\ ~IsNone(rule_output)
    /\ Val(rule_output).full # Val(rule_output).without
    /\ OtherRules(Val(rule_output).without, rule_input.drop) # <<>>


(***************************************************************************)
(* The serializers of the sentiment, collaboration and lifecycle reports.  *)
(* Each cleans the report object and hands the result to json.dump.        *)
(***************************************************************************)
\* a numpy array of floats
NdArray(cells) == [kind |-> "np.ndarray", cells |-> cells]

\* ndarray.tolist(): a list of Python floats
tolist(arr) == PyList([i \in DOMAIN arr.cells |-> PyFloat(arr.cells[i])])

\* str(obj) of a scalar: its text, which is no number
StrOf(obj) == PyStr(<<"str", obj>>)

RECURSIVE convert_to_json_serializable(_)
\* the isinstance chain of the sentiment report: a Python int, float or str
\* matches no branch before the last one and leaves as str(obj)
convert_to_json_serializable(obj) ==
    CASE obj.kind = "NoneType" -> PyNone
      [] obj.kind = "np.integer" -> PyInt(obj.val)
      [] obj.kind = "np.floating" -> PyFloat(obj.val)
      [] obj.kind = "np.ndarray" -> tolist(obj)
      [] obj.kind = "dict" ->
            PyDict([i \in DOMAIN obj.items |->
                       Item(obj.items[i].key,
                            convert_to_json_serializable(obj.items[i].value))])
      [] obj.kind = "list" ->
            PyList([i \in DOMAIN obj.items |-> convert_to_json_serializable(obj.items[i])])
      [] obj.kind = "str" -> obj
      [] OTHER -> StrOf(obj)

RECURSIVE _clean_for_json(_)
\* CollaborationMLAnalyzer._clean_for_json; a Python float that is infinite
\* is a computed value, not the object np.inf, and fails the identity test
_clean_for_json(obj) ==
    CASE obj.kind = "dict" ->
            PyDict([i \in DOMAIN obj.items |->
                       Item(obj.items[i].key, _clean_for_json(obj.items[i].value))])
      [] obj.kind = "list" -> PyList([i \in DOMAIN obj.items |-> _clean_for_json(obj.items[i])])
      [] obj.kind = "np.integer" -> PyInt(obj.val)
      [] obj.kind = "np.floating" ->
            IF obj.val.nan \/ obj.val = Infinity THEN PyNone ELSE PyFloat(obj.val)
      [] obj.kind = "np.ndarray" -> tolist(obj)
      [] obj.kind = "NoneType" -> PyNone
      [] obj.kind = "float" /\ obj.val.nan -> PyNone        \* pd.isna(obj)
      [] OTHER -> obj

RECURSIVE convert_to_serializable(_)
\* convert_to_serializable of the lifecycle report: a numpy float is turned
\* into a float before pd.isna is asked
convert_to_serializable(obj) ==
    CASE obj.kind = "np.integer" -> PyInt(obj.val)
      [] obj.kind = "np.floating" -> PyFloat(obj.val)
      [] obj.kind = "np.ndarray" -> tolist(obj)
      [] obj.kind = "dict" ->
            PyDict([i \in DOMAIN obj.items |->
                       Item(obj.items[i].key, convert_to_serializable(obj.items[i].value))])
      [] obj.kind = "list" ->
            PyList([i \in DOMAIN obj.items |-> convert_to_serializable(obj.items[i])])
      [] obj.kind = "NoneType" -> PyNone
      [] obj.kind = "float" /\ obj.val.nan -> PyNone        \* pd.isna(obj)
      [] OTHER -> obj

RECURSIVE json_load(_)
\* json.load: the Python object a JSON text denotes; Python's parser reads
\* the tokens NaN and Infinity as floats
json_load(t) ==
    CASE t.tok = "object" ->
            PyDict([i \in DOMAIN t.members |->
                       Item(t.members[i].key, json_load(t.members[i].value))])
      [] t.tok = "array" -> PyList([i \in DOMAIN t.elements |-> json_load(t.elements[i])])
      [] t.tok = "number" -> PyFloat(t.val)
      [] t.tok = "string" -> PyStr(t.val)
      [] t.tok = "NaN" -> PyFloat(NaN)
      [] t.tok = "Infinity" -> PyFloat(Infinity)
      [] OTHER -> PyNone

(***************************************************************************)
(* SpecSerial: one report type's serializer writes one report object.      *)
(***************************************************************************)
MaxItems == 2

Serializers == {"sentiment", "collab", "lifecycle"}

\* the leaves a report holds: Python and numpy numbers, finite or not,
\* strings, None and arrays
SzLeaves ==
    {PyInt(1), NpInt(1), PyFloat(Rat(1, 2)), PyFloat(NaN), PyFloat(Infinity),
     NpFloat(Rat(1, 2)), NpFloat(NaN), NpFloat(Infinity), PyStr("a"), PyNone,
     NdArray(<<Rat(1, 2), NaN>>)}

SzReports ==
    {PyDict(<<Item("value", v)>>) :
        v \in SzLeaves \cup {PyList(items) : items \in SeqsUpTo(SzLeaves, MaxItems)}}

InitSerial ==
    /\ MainIdle /\ ClusterIdle /\ AnomalyIdle /\ RulesIdle
    /\ RunsIdle /\ FeaturesIdle /\ ElbowIdle /\ LateIdle
    /\ rng42 = 0
    /\ serializer \in Serializers
    /\ sz_report \in {Some(r) : r \in SzReports}
    /\ sz_written = None

\* main of the sentiment report: convert_to_json_serializable, then json.dump
SerializeSentiment ==
    /\ serializer = "sentiment" /\ sz_written = None
    /\ sz_written' = Some(json_dump(convert_to_json_serializable(Val(sz_report))))
    /\ UNCHANGED <<mainVars, rng42, clusterVars, anomalyVars, ruleVars, runVars,
                   featureVars, elbowVars, lateVars, serializer, sz_report>>

\* CollaborationMLAnalyzer.save_insights
SerializeCollab ==
    /\ serializer = "collab" /\ sz_written = None
    /\ sz_written' = Some(json_dump(_clean_for_json(Val(sz_report))))
    /\ UNCHANGED <<mainVars, rng42, clusterVars, anomalyVars, ruleVars, runVars,
                   featureVars, elbowVars, lateVars, serializer, sz_report>>

\* export_analysis of the lifecycle report on a converted section
SerializeLifecycle ==
    /\ serializer = "lifecycle" /\ sz_written = None
    /\ sz_written' = Some(json_dump(convert_to_serializable(Val(sz_report))))
    /\ UNCHANGED <<mainVars, rng42, clusterVars, anomalyVars, ruleVars, runVars,
                   featureVars, elbowVars, lateVars, serializer, sz_report>>

NextSerial ==
    \/ SerializeSentiment
    \/ SerializeCollab
    \/ SerializeLifecycle

SpecSerial == InitSerial /\ [][NextSerial]_vars

RECURSIVE WithoutNaN(_)
\* the report with every NaN and Infinity replaced by None
WithoutNaN(obj) ==
    CASE obj.kind = "dict" ->
            PyDict([i \in DOMAIN obj.items |->
                       Item(obj.items[i].key, WithoutNaN(obj.items[i].value))])
      [] obj.kind = "list" -> PyList([i \in DOMAIN obj.items |-> WithoutNaN(obj.items[i])])
      [] obj.kind = "np.ndarray" -> WithoutNaN(tolist(obj))
      [] obj.kind \in {"float", "np.floating"} ->
            IF obj.val.nan \/ obj.val = Infinity THEN PyNone ELSE obj
      [] OTHER -> obj

RECURSIVE SameValue(_, _)
\* equality of two Python objects as == decides it: numbers compare by
\* value whatever their type, containers item by item
SameValue(a, b) ==
    LET number == {"int", "float", "np.integer", "np.floating"}
        num(x) == IF x.kind \in {"int", "np.integer"} THEN Int2Num(x.val) ELSE x.val
    IN  CASE a.kind \in number /\ b.kind \in number ->
                ~num(a).nan /\ num(a) = num(b)
          [] a.kind = "dict" /\ b.kind = "dict" ->
                /\ Len(a.items) = Len(b.items)
                /\ \A i \in DOMAIN a.items :
                      /\ a.items[i].key = b.items[i].key
                      /\ SameValue(a.items[i].value, b.items[i].value)
          [] a.kind = "list" /\ b.kind = "list" ->
                /\ Len(a.items) = Len(b.items)
                /\ \A i \in DOMAIN a.items : SameValue(a.items[i], b.items[i])
          [] a.kind = "str" /\ b.kind = "str" -> a.val = b.val
          [] OTHER -> a.kind = "NoneType" /\ b.kind = "NoneType"

\* C11: for any report holding numpy numbers or NaN / Infinity, the written
\* text is JSON (no NaN or Infinity token, so that parsing never errors) and
\* parses to the report with NaN / Infinity replaced by null: same keys,
\* same values, same nesting.
C11_RoundTrip ==
    ~IsNone(sz_written) =>
        /\ JsonTokens(Val(sz_written)) \subseteq
              {"object", "array", "number", "string", "null", "true", "false"}
        /\ SameValue(json_load(Val(sz_written)), WithoutNaN(Val(sz_report)))


(***************************************************************************)
(* Claims about the stale-PR run as a whole (checked under Spec).          *)
(***************************************************************************)
\* the run has ended: main() returned or left through sys.exit
Ended == pc \in {"done", "failed"}

\* C12: no run ends without an output file written: a run that met an
\* unrecoverable error has written a (minimal, status "failed") report
\* instead of raising to the caller.
C12_EndedRunWroteFile == Ended => ~IsNone(out_file)

\* C15: scenario B, an input whose record array is empty: the run ends
\* with a written, parseable output file whose clusters, risk scores and
\* recommendations are empty.
C15_EmptyInputStillReports ==
    (Ended /\ data = Some(<<>>)) =>
        /\ pc = "done"
        /\ ~IsNone(out_file)
        /\ JsonTokens(Val(out_file)) \subseteq
              {"object", "array", "number", "string", "null", "true", "false"}
        /\ insights.clustering = Some(<<>>)
        /\ risk_df = Some(<<>>)
        /\ insights.recommendations = Some(<<>>)


(***************************************************************************)
(* SpecRuns: one whole command-line run of the sentiment, collaboration,   *)
(* lifecycle, lead-time and merge-readiness programs, from the read of the *)
(* input file to the process exit code.                                    *)
(***************************************************************************)
MaxRecords == 7      \* longest record array of a generated input file
MaxClusters == 5     \* largest generated --clusters argument

Programs == {"sentiment", "collab", "lifecycle", "lead_time", "merge_readiness"}

\* an input file: missing, not JSON, or JSON holding n records; null_field
\* says that a numeric field of one record (of one metric object, for the
\* merge-readiness file) is null; weekdays counts the distinct week days of
\* the merge timestamps, 0 when the records carry no merge timestamp
RunInputs ==
    {[file |-> f, n |-> 0, clusters |-> k, null_field |-> FALSE, weekdays |-> 0] :
        f \in {"missing", "invalid"}, k \in 0 .. MaxClusters}
    \cup
    {[file |-> "ok", n |-> n, clusters |-> k, null_field |-> b, weekdays |-> w] :
        n \in 0 .. MaxRecords, k \in 0 .. MaxClusters, b \in BOOLEAN,
        w \in 0 .. 7}

\* what a run leaves behind: the exit code and the output file, "none",
\* the full "report" or the "minimal" report of a failed export
Outcome(code, file) == [exit |-> code, file |-> file]

\* a feature matrix of n rows, for the fit that only looks at the count
Rows(n) == [i \in 1 .. n |-> <<0>>]

\* sentiment main(): every except branch only prints, no branch calls
\* sys.exit; an empty table prints "No data to process" and returns; the
\* stages below catch their own errors; the conflict model is trained only
\* from 10 rows on
sentiment_main(inp) ==
    IF inp.file # "ok" THEN Outcome(0, "none")
    ELSE IF inp.n = 0 THEN Outcome(0, "none")
    ELSE Outcome(0, "report")

\* collaboration main(): load_data raises on a missing or invalid file,
\* prepare_features raises on no user statistics and on int(None), and
\* every except branch of main leaves through sys.exit(1)
collab_main(inp) ==
    IF inp.file # "ok" THEN Outcome(1, "none")
    ELSE IF inp.n = 0 THEN Outcome(1, "none")
    ELSE IF inp.null_field THEN Outcome(1, "none")
    ELSE Outcome(0, "report")

\* lifecycle main(): no data or no feature row leaves through sys.exit(1);
\* float(x or 0) reads a null as 0; KMeans(n_clusters=4) raises below four
\* rows and the except branch leaves through sys.exit(1)
lifecycle_main(inp) ==
    IF inp.file # "ok" THEN Outcome(1, "none")
    ELSE IF inp.n = 0 THEN Outcome(1, "none")
    ELSE IF KMeansRaises(Rows(inp.n), 4) THEN Outcome(1, "none")
    ELSE Outcome(0, "report")

\* the rows _preprocess_data keeps: a null lead time is coerced to 0 and
\* the row is filtered out by LEAD_TIME_HOURS > 0
PositiveLeadTimeRows(inp) == IF inp.null_field /\ inp.n > 0 THEN inp.n - 1 ELSE inp.n

\* lead-time main(): an empty record array has no LEAD_TIME_HOURS column,
\* the scalar default has no fillna; perform_clustering fits without a
\* clamp and without a try; temporal_analysis names seven week days and
\* raises on any other count; the except branch leaves through sys.exit(1)
lead_time_main(inp) ==
    IF inp.file # "ok" THEN Outcome(1, "none")
    ELSE IF inp.n = 0 THEN Outcome(1, "none")
    ELSE IF PositiveLeadTimeRows(inp) = 0 THEN Outcome(1, "none")
    ELSE IF KMeansRaises(Rows(PositiveLeadTimeRows(inp)), inp.clusters)
         THEN Outcome(1, "none")
    ELSE IF inp.weekdays \notin {0, 7} THEN Outcome(1, "none")
    ELSE Outcome(0, "report")

\* merge-readiness main(): prepare_features builds one row per metric type
\* with float(), which raises on null; perform_clustering clamps the
\* argument to the three rows; the except branch leaves through sys.exit(1)
merge_readiness_main(inp) ==
    IF inp.file # "ok" THEN Outcome(1, "none")
    ELSE IF inp.null_field THEN Outcome(1, "none")
    ELSE IF KMeansRaises(Rows(3), IF inp.clusters > 3 THEN 3 ELSE inp.clusters)
         THEN Outcome(1, "none")
    ELSE Outcome(0, "report")

InitRuns ==
    /\ MainIdle /\ ClusterIdle /\ AnomalyIdle /\ RulesIdle
    /\ SerialIdle /\ FeaturesIdle /\ ElbowIdle /\ LateIdle
    /\ rng42 = 0
    /\ program \in Programs
    /\ run_input \in {Some(i) : i \in {j \in RunInputs : j.weekdays <= j.n}}
    /\ run_exit = -1
    /\ run_file = "none"

RunMain(name, result) ==
    /\ program = name
    /\ run_exit = -1
    /\ run_exit' = result.exit
    /\ run_file' = result.file
    /\ UNCHANGED <<mainVars, rng42, clusterVars, anomalyVars, ruleVars,
                   serialVars, featureVars, elbowVars, lateVars, program, run_input>>

MainSentiment == RunMain("sentiment", sentiment_main(Val(run_input)))

MainCollab == RunMain("collab", collab_main(Val(run_input)))

MainLifecycle == RunMain("lifecycle", lifecycle_main(Val(run_input)))

MainLeadTime == RunMain("lead_time", lead_time_main(Val(run_input)))

MainMergeReadiness ==
    RunMain("merge_readiness", merge_readiness_main(Val(run_input)))

NextRuns ==
    \/ MainSentiment
    \/ MainCollab
    \/ MainLifecycle
    \/ MainLeadTime
    \/ MainMergeReadiness

SpecRuns == InitRuns /\ [][NextRuns]_vars

\* the process has ended
RunEnded == run_exit # -1

\* C13: in every report type a run whose input file is missing or is not
\* valid JSON ends with exit code 1, and a run that produced its report,
\* fully or in part, ends with exit code 0.
C13_ExitCodes ==
    RunEnded =>
        /\ Val(run_input).file \in {"missing", "invalid"} => run_exit = 1
        /\ run_file # "none" => run_exit = 0

\* C14: once the input file was loaded and parsed, the run ends with exit
\* code 0: no error of a later stage reaches the exit code.
C14_OnlyLoadFailuresExitNonZero ==
    (RunEnded /\ Val(run_input).file = "ok") => run_exit = 0


(***************************************************************************)
(* SpecFeatures: the feature extractors of the stale-PR, lifecycle,        *)
(* lead-time and collaboration analyzers, each applied to a record list.   *)
(***************************************************************************)
Extractors == {"stale", "lifecycle", "lead_time", "collab"}

\* a field of a parsed JSON record: absent, null, a string that is no
\* number, or an integer
Absent == [kind |-> "absent", val |-> 0]
Null == [kind |-> "null", val |-> 0]
Text == [kind |-> "text", val |-> 0]
IntCell(n) == [kind |-> "int", val |-> n]

\* a record of the lifecycle, lead-time and collaboration files: its
\* identity field (NUMBER, pr_number, the user key) and one numeric field
\* (CYCLE_TIME_HOURS, LEAD_TIME_HOURS, prs_created)
RawRecords ==
    {[id |-> i, metric |-> m] :
        i \in {Absent, IntCell(1), IntCell(2)},
        m \in {Absent, Null, Text, IntCell(0), IntCell(5)}}

StaleRecords == {BasePR, StalePR, NullDaysPR, NullAdditionsPR, NoNumberPR}

\* what an extractor leaves: it raised, or the table it built
ExtractorRaised == [raised |-> TRUE, rows |-> <<>>]
Built(rows) == [raised |-> FALSE, rows |-> rows]

\* stale-PR prepare_features with its guard on the empty list
stale_features(prs) ==
    IF prs = <<>> THEN ExtractorRaised ELSE Built(prepare_features(prs))

\* lifecycle prepare_features: int(pr['NUMBER']) and
\* float(pr['CYCLE_TIME_HOURS'] or 0) sit in one try; KeyError, ValueError
\* and TypeError skip the record; a null reads as 0
LifecycleRowRaises(pr) == pr.id.kind # "int" \/ pr.metric.kind \in {"absent", "text"}

LifecycleRow(pr) ==
    [id |-> pr.id.val,
     metric |-> IF pr.metric.kind = "null" THEN Int2Num(0) ELSE Int2Num(pr.metric.val)]

lifecycle_features(prs) ==
    LET kept == SelectIdx([i \in DOMAIN prs |-> ~LifecycleRowRaises(prs[i])],
                          1, Len(prs))
    IN  Built([j \in DOMAIN kept |-> LifecycleRow(prs[kept[j]])])

\* lead-time _preprocess_data: df.get('LEAD_TIME_HOURS', 0) is the scalar 0
\* when no record has the column, and the scalar has no fillna; otherwise
\* to_numeric(errors='coerce').fillna(0) reads absent, null and text as 0
\* and the filter LEAD_TIME_HOURS > 0 removes those rows
LeadTimeHours(pr) == IF pr.metric.kind = "int" THEN pr.metric.val ELSE 0

lead_time_features(prs) ==
    IF \A i \in DOMAIN prs : prs[i].metric.kind = "absent" THEN ExtractorRaised
    ELSE LET kept == SelectIdx([i \in DOMAIN prs |-> LeadTimeHours(prs[i]) > 0],
                               1, Len(prs))
         IN  Built([j \in DOMAIN kept |->
                        [id |-> prs[kept[j]].id,
                         metric |-> Int2Num(LeadTimeHours(prs[kept[j]]))]])

\* collaboration prepare_features: no user raises; int(stats.get(..., 0))
\* reads an absent field as 0 and raises on null and on text, outside any
\* try
collab_features(users) ==
    IF users = <<>> THEN ExtractorRaised
    ELSE IF \E i \in DOMAIN users : users[i].metric.kind \in {"null", "text"}
    THEN ExtractorRaised
    ELSE Built([i \in DOMAIN users |->
                   [id |-> users[i].id.val,
                    metric |-> Int2Num(IF users[i].metric.kind = "absent" THEN 0
                                       ELSE users[i].metric.val)]])

\* the keys of a JSON object are present and distinct
UserLists ==
    {us \in SeqsUpTo(RawRecords, MaxRows) :
        /\ \A i \in DOMAIN us : us[i].id.kind = "int"
        /\ \A i, j \in DOMAIN us : i # j => us[i].id # us[j].id}

InitFeatures ==
    /\ MainIdle /\ ClusterIdle /\ AnomalyIdle /\ RulesIdle
    /\ SerialIdle /\ RunsIdle /\ ElbowIdle /\ LateIdle
    /\ rng42 = 0
    /\ extractor \in Extractors
    /\ fx_records \in
          CASE extractor = "stale" -> SeqsUpTo(StaleRecords, MaxRows)
            [] extractor = "collab" -> UserLists
            [] OTHER -> SeqsUpTo(RawRecords, MaxRows)
    /\ features_df = None

Extract(name, result) ==
    /\ extractor = name
    /\ IsNone(features_df)
    /\ features_df' = Some(result)
    /\ UNCHANGED <<mainVars, rng42, clusterVars, anomalyVars, ruleVars,
                   serialVars, runVars, elbowVars, lateVars, extractor, fx_records>>

ExtractStale == Extract("stale", stale_features(fx_records))

ExtractLifecycle == Extract("lifecycle", lifecycle_features(fx_records))

ExtractLeadTime == Extract("lead_time", lead_time_features(fx_records))

ExtractCollab == Extract("collab", collab_features(fx_records))

NextFeatures ==
    \/ ExtractStale
    \/ ExtractLifecycle
    \/ ExtractLeadTime
    \/ ExtractCollab

SpecFeatures == InitFeatures /\ [][NextFeatures]_vars

\* the identities of the records whose identity field can be read, in
\* input order
RecoverableIds(recs) ==
    IF extractor = "stale"
    THEN LET ok == SelectIdx([i \in DOMAIN recs |-> ~IsNone(recs[i].number)],
                             1, Len(recs))
         IN  [j \in DOMAIN ok |-> Val(recs[ok[j]].number)]
    ELSE LET ok == SelectIdx([i \in DOMAIN recs |-> recs[i].id.kind = "int"],
                             1, Len(recs))
         IN  [j \in DOMAIN ok |-> recs[ok[j]].id.val]

\* the identities of the rows of a table, in table order
RowIds(rows) ==
    [j \in DOMAIN rows |->
        IF extractor = "stale" THEN rows[j].pr_number
        ELSE IF extractor = "lead_time" THEN rows[j].id.val
        ELSE rows[j].id]

\* a row holding a null (None or NaN) cell
HasNullCell(row) ==
    IF extractor = "stale" THEN IsNone(row.inactive_days) ELSE row.metric.nan

\* C16: a record whose numeric field is absent, null or no number keeps
\* its row: for a non-empty record list whose identities are all readable
\* the extractor builds a table with one row per record, in input order.
C16_MalformedFieldKeepsRow ==
    (~IsNone(features_df) /\ fx_records # <<>>
        /\ extractor \in {"stale", "lifecycle", "lead_time"}
        /\ Len(RecoverableIds(fx_records)) = Len(fx_records)) =>
        /\ ~Val(features_df).raised
        /\ RowIds(Val(features_df).rows) = RecoverableIds(fx_records)

\* C17: every row of a built feature table has a non-null value in every
\* field.
C17_NoNullCellInKeptRow ==
    (~IsNone(features_df) /\ ~Val(features_df).raised) =>
        \A j \in DOMAIN Val(features_df).rows :
            ~HasNullCell(Val(features_df).rows[j])


(***************************************************************************)
(* SpecElbow: _find_optimal_clusters of the collaboration analyzer on a    *)
(* data set of n users, given the inertia the library reports per k.       *)
(***************************************************************************)
MaxUsers == 5        \* largest generated number of users

\* perform_clustering passes max_clusters, 8 unless the caller says else
MaxClustersArgs == {2, 3, 8}
InertiaValues == {0, 10, 50, 90}

\* the inertia of the fit with k clusters, for every k that can be fitted;
\* more clusters never fit worse
ElbowProfiles ==
    {f \in [2 .. MaxUsers -> InertiaValues] :
        \A k \in 2 .. (MaxUsers - 1) : f[k + 1] <= f[k]}

InitElbow ==
    /\ MainIdle /\ ClusterIdle /\ AnomalyIdle /\ RulesIdle
    /\ SerialIdle /\ RunsIdle /\ FeaturesIdle /\ LateIdle
    /\ rng42 = 0
    /\ elbow_input \in
          {Some([n |-> n, max_clusters |-> m, inertias |-> f]) :
              n \in 0 .. MaxUsers, m \in MaxClustersArgs, f \in ElbowProfiles}
    /\ optimal_k = None

FindOptimalClusters ==
    /\ ~IsNone(elbow_input)
    /\ IsNone(optimal_k)
    /\ LET in == Val(elbow_input) IN
       optimal_k' = Some(_find_optimal_clusters(in.n, in.max_clusters, in.inertias))
    /\ UNCHANGED <<mainVars, rng42, clusterVars, anomalyVars, ruleVars,
                   serialVars, runVars, featureVars, lateVars, elbow_input>>

NextElbow == FindOptimalClusters

SpecElbow == InitElbow /\ [][NextElbow]_vars

\* the largest k that is fitted: min(max_clusters, n - 1)
LargestFit ==
    LET in == Val(elbow_input) IN
    IF in.max_clusters < in.n - 1 THEN in.max_clusters ELSE in.n - 1

\* d(k) = inertia(k) - inertia(k + 1)
MarginalDecrease(k) == Val(elbow_input).inertias[k] - Val(elbow_input).inertias[k + 1]

\* C18: with at least two fits to compare, the returned k is the one that
\* follows the largest marginal decrease: some k* in 2 .. min(maxK, n-1) - 1
\* has d(k*) maximal and the result is k* + 1.
C18_ElbowReturnsFollowingK ==
    (~IsNone(optimal_k) /\ LargestFit >= 3) =>
        \E kstar \in 2 .. (LargestFit - 1) :
            /\ \A j \in 2 .. (LargestFit - 1) :
                  MarginalDecrease(j) <= MarginalDecrease(kstar)
            /\ Val(optimal_k) = kstar + 1


(***************************************************************************)
(* Claims about the recommendation lists (checked under SpecRules).        *)
(***************************************************************************)
\* C21: each rule fires at most once: the returned list holds at most one
\* recommendation per category, also when several clusters exceed the
\* threshold of the cluster rule.
C21_AtMostOnePerRule ==
    ~IsNone(rule_output) =>
        \A i, j \in DOMAIN Val(rule_output).full :
            Val(rule_output).full[i].category = Val(rule_output).full[j].category
                => i = j


(***************************************************************************)
(* Claims about risk scores and recommendations of the stale-PR run        *)
(* (checked under Spec).                                                   *)
(***************************************************************************)
\* generate_recommendations has returned
Recommended == pc \in {"recommended", "done"}

\* the Critical-priority recommendation of the risk rule is in the list
HasImmediateAction ==
    \E j \in DOMAIN Val(insights.recommendations) :
        /\ Val(insights.recommendations)[j].category = "Immediate Action"
        /\ Val(insights.recommendations)[j].priority = "Critical"

\* the number of rows whose risk level is Critical
CriticalCount ==
    Cardinality({i \in DOMAIN Val(risk_df) : Val(risk_df)[i].risk_level = Some("Critical")})

\* C22: the list holds the Critical 'Immediate Action' recommendation
\* exactly when more than 5 rows are in the Critical bucket, and inputs of
\* non-negative feature values produce it: the six pull requests that are
\* highest in every risk-raising factor and 0 in the risk-lowering ones do.
C22_ImmediateActionReachable ==
    Recommended =>
        /\ HasImmediateAction <=> CriticalCount > 5
        /\ data = Some(RiskiestSix) => HasImmediateAction


(***************************************************************************)
(* SpecMerge: MergeReadinessMLAnalyzer.analyze from prepare_features to    *)
(* the clustering analysis of the insights.                                *)
(***************************************************************************)
\* avg_lead_time_hours, avg_response_time_hours and overall_score
MetricHours == {0, 10, 30, 100}

MergeInputs ==
    {[avg_value |-> <<l, r, q>>, n_clusters |-> k] :
        l \in MetricHours, r \in MetricHours, q \in MetricHours,
        k \in 0 .. MaxClusters}

\* m / sqrt(root) < t for a threshold t > 0 and root > 0; False for NaN
BelowThreshold(m, root, t) ==
    RLess(m, Int2Num(0)) \/ RLess(RMul(m, m), RScale(root, t * t))

\* the labelling loop of perform_clustering on a cluster mean of avg_value
PerformanceLabel(m, root) ==
    IF BelowThreshold(m, root, 24) THEN "Fast Track"
    ELSE IF BelowThreshold(m, root, 72) THEN "Standard Process"
    ELSE "Needs Improvement"

\* MergeReadinessMLAnalyzer.perform_clustering on a frame given by its
\* avg_value column (median, p75 and p95 are 0 in every row)
merge_perform_clustering(avg_value, n_clusters, stream) ==
    LET n == Len(avg_value.coef)
        k == IF n < n_clusters THEN (IF n > 1 THEN n ELSE 1) ELSE n_clusters
        X == [i \in 1..n |-> <<avg_value.coef[i], avg_value.root>>]
    IN  IF KMeansRaises(X, k)
        THEN [raised |-> TRUE, cluster |-> <<>>, cluster_labels |-> <<>>]
        ELSE LET clusters == KMeansLabels(X, k, stream, 0)
                 rows(c) == {i \in 1..n : clusters[i] = c}
                 cluster_avg(c) ==
                    IF rows(c) = {} THEN NaN ELSE RMeanOf(avg_value.coef, rows(c))
             IN  [raised |-> FALSE, cluster |-> clusters,
                  cluster_labels |->
                      [c \in 0 .. (k - 1) |->
                          PerformanceLabel(cluster_avg(c), avg_value.root)]]

\* MergeReadinessMLAnalyzer._generate_cluster_recommendations: one entry per
\* cluster id in df_clustered['cluster'].unique(), in order of appearance
_generate_cluster_recommendations(df_clustered) ==
    LET ids == FirstOccurrences(df_clustered.cluster) IN
    [j \in DOMAIN ids |->
        LET cluster_label == df_clustered.cluster_labels[df_clustered.cluster[ids[j]]] IN
        IF cluster_label = "Fast Track"
        THEN [cluster |-> cluster_label, action |-> "maintain_excellence",
              priority |-> "low"]
        ELSE IF cluster_label = "Standard Process"
        THEN [cluster |-> cluster_label, action |-> "optimize_process",
              priority |-> "medium"]
        ELSE [cluster |-> cluster_label, action |-> "immediate_improvement",
              priority |-> "high"]]

\* analyze: perform_clustering is handed df_normalized, the frame whose
\* numeric columns StandardScaler has replaced
merge_analyze(inp, stream) ==
    LET df_normalized == Standardize(RawColumn(inp.avg_value))
        df_clustered == merge_perform_clustering(df_normalized, inp.n_clusters, stream)
    IN  IF df_clustered.raised
        THEN [raised |-> TRUE, cluster |-> <<>>, cluster_labels |-> <<>>,
              recommendations |-> <<>>]
        ELSE [raised |-> FALSE, cluster |-> df_clustered.cluster,
              cluster_labels |-> df_clustered.cluster_labels,
              recommendations |-> _generate_cluster_recommendations(df_clustered)]

InitMerge ==
    /\ MainIdle /\ ClusterIdle /\ AnomalyIdle /\ RulesIdle
    /\ SerialIdle /\ RunsIdle /\ FeaturesIdle /\ ElbowIdle /\ AfterMergeIdle
    /\ rng42 \in 0 .. MaxDraw
    /\ merge_input \in {Some(i) : i \in MergeInputs}
    /\ merge_insights = None

Analyze ==
    /\ ~IsNone(merge_input)
    /\ IsNone(merge_insights)
    /\ merge_insights' = Some(merge_analyze(Val(merge_input), rng42))
    /\ UNCHANGED <<mainVars, rng42, clusterVars, anomalyVars, ruleVars,
                   serialVars, runVars, featureVars, elbowVars, merge_input,
                   afterMergeVars>>

NextMerge == Analyze

SpecMerge == InitMerge /\ [][NextMerge]_vars

\* the members of cluster c and the mean of their avg_value, in hours
MembersOf(c) ==
    {i \in DOMAIN Val(merge_insights).cluster : Val(merge_insights).cluster[i] = c}
MeanHours(c) ==
    Rat(SumOver(Val(merge_input).avg_value, MembersOf(c)), Cardinality(MembersOf(c)))

\* C23: every cluster with members is labelled from the mean of its
\* members' avg_value in hours: below 24 'Fast Track', below 72 'Standard
\* Process', otherwise 'Needs Improvement' together with a high-priority
\* 'immediate_improvement' recommendation.
C23_LabelledFromHours ==
    (~IsNone(merge_insights) /\ ~Val(merge_insights).raised) =>
        \A c \in DOMAIN Val(merge_insights).cluster_labels :
            MembersOf(c) # {} =>
                /\ Val(merge_insights).cluster_labels[c] =
                      (IF RLess(MeanHours(c), Int2Num(24)) THEN "Fast Track"
                       ELSE IF RLess(MeanHours(c), Int2Num(72)) THEN "Standard Process"
                       ELSE "Needs Improvement")
                /\ ~RLess(MeanHours(c), Int2Num(72)) =>
                      \E j \in DOMAIN Val(merge_insights).recommendations :
                          Val(merge_insights).recommendations[j] =
                              [cluster |-> "Needs Improvement",
                               action |-> "immediate_improvement",
                               priority |-> "high"]


(***************************************************************************)
(* The bound of the risk score on non-negative factors (checked under      *)
(* Spec).                                                                  *)
(***************************************************************************)
\* every factor column of the feature table holds non-negative values
NonNegativeFactors ==
    \A i \in DOMAIN Val(processed_data) :
        \A j \in DOMAIN RiskFactorNames :
            LET cell == Column(Val(processed_data), RiskFactorNames[j])[i] IN
            ~cell.nan /\ cell.num >= 0

\* C24: when all factor columns hold non-negative values every risk score
\* is at most 65, no row has a score above 75 and high_risk_prs is empty.
C24_NonNegativeScoresAtMost65 ==
    (Scored /\ NonNegativeFactors) =>
        /\ \A i \in DOMAIN Val(risk_df) :
              RLeq(Val(risk_df)[i].risk_score, Int2Num(65))
        /\ Val(insights.risk_analysis).high_risk_prs = <<>>

\* a table of non-negative factors was scored and a row reached 65
C24_BoundAttained ==
    /\ Scored
    /\ NonNegativeFactors
    /\ \E i \in DOMAIN Val(risk_df) : REqInt(Val(risk_df)[i].risk_score, 65)


(***************************************************************************)
(* The partition a clustering reports (checked under SpecCluster).         *)
(***************************************************************************)
\* the cluster id of the j-th reported cluster: the sentiment report skips
\* clusters without rows, the other reports list cluster 0, 1, ... in order
ReportedId(run, j) == IF engine = "sentiment" THEN run.clusters[j].id ELSE j - 1

\* the rows the fit assigned to cluster id c
AssignedTo(run, c) == {r \in DOMAIN run.assignments : run.assignments[r] = c}

\* a fit of the stale-PR, collaboration or sentiment engine ran to the end
Partitioned(run) == run.fitted /\ engine \in {"stale", "collab", "sentiment"}

\* C25: after a successful clustering with k clusters over n rows every
\* row has one cluster id in 0..k-1, the reported clusters are pairwise
\* disjoint (no id is reported twice and each reported size counts the rows
\* of its id), and the reported sizes sum to n.
C25_ClustersPartitionRows ==
    \A i \in DOMAIN runs :
        Partitioned(runs[i]) =>
            LET run == runs[i] IN
            /\ Len(run.assignments) = run.n
            /\ \A r \in DOMAIN run.assignments : run.assignments[r] \in 0 .. (run.used - 1)
            /\ \A j, h \in DOMAIN run.clusters :
                  ReportedId(run, j) = ReportedId(run, h) => j = h
            /\ \A j \in DOMAIN run.clusters :
                  run.clusters[j].size = Cardinality(AssignedTo(run, ReportedId(run, j)))
            /\ SumOver([j \in DOMAIN run.clusters |-> run.clusters[j].size],
                       DOMAIN run.clusters) = run.n

\* a fit spread the rows over two clusters, or left a cluster without rows
C25_SeveralClustersFitted ==
    \E i \in DOMAIN runs :
        /\ Partitioned(runs[i])
        /\ runs[i].used >= 2
        /\ \/ \E a, b \in DOMAIN runs[i].assignments :
                 runs[i].assignments[a] # runs[i].assignments[b]
           \/ \E c \in 0 .. (runs[i].used - 1) : AssignedTo(runs[i], c) = {}


(***************************************************************************)
(* The range of the elbow's answer (checked under SpecElbow).              *)
(***************************************************************************)
\* C26: _find_optimal_clusters returns 1 when min(max_clusters, n-1) < 2,
\* 2 when exactly one candidate is fitted, and otherwise a k from 2 to
\* min(max_clusters, n-1) - 1: never the largest fitted candidate.
C26_LargestCandidateNeverSelected ==
    ~IsNone(optimal_k) =>
        /\ LargestFit < 2 => Val(optimal_k) = 1
        /\ LargestFit = 2 => Val(optimal_k) = 2
        /\ LargestFit >= 3 => Val(optimal_k) \in 2 .. (LargestFit - 1)

\* several candidates were fitted, the largest decrease is the last one
\* and the answer is the candidate before the largest
C26_LastDecreaseLargest ==
    /\ ~IsNone(optimal_k)
    /\ LargestFit >= 4
    /\ \A j \in 2 .. (LargestFit - 2) :
          MarginalDecrease(j) < MarginalDecrease(LargestFit - 1)
    /\ Val(optimal_k) = LargestFit - 1


(***************************************************************************)
(* The order of the stale-PR run (checked under Spec).                     *)
(***************************************************************************)
\* main() calls load_data, prepare_features, analyze_abandonment_patterns,
\* perform_clustering, predict_risk_scores, generate_recommendations and
\* save_insights one after the other
StageOrder ==
    <<"start", "loaded", "prepared", "analyzed", "clustered", "scored",
      "recommended", "done">>

\* C27: the stages return in their order, ml_insights.json is written only
\* in the step after generate_recommendations returned, and a run that
\* fails ends with exit code 1 without an insights file.
C27_InsightsWrittenLast ==
    [][/\ pc' # pc =>
            \/ pc' = "failed" /\ pc \in Range(SubSeq(StageOrder, 1, 7))
            \/ \E s \in 1 .. 7 : pc = StageOrder[s] /\ pc' = StageOrder[s + 1]
       /\ out_file' # out_file => pc = "recommended" /\ pc' = "done"
       /\ pc' = "failed" => exit_code' = 1 /\ IsNone(out_file')]_vars

\* a run wrote its file with every stage's result in the insights
C27_FileWrittenAfterAllStages ==
    /\ pc = "done"
    /\ ~IsNone(out_file)
    /\ ~IsNone(insights.abandonment_patterns)
    /\ ~IsNone(insights.risk_analysis)
    /\ ~IsNone(insights.recommendations)


(***************************************************************************)
(* The public methods of three analyzers, called by a caller in any order  *)
(* on one object.  A method is an operator from the object (and its        *)
(* arguments) to the object it leaves behind and whether an exception left *)
(* the method.                                                             *)
(***************************************************************************)
Returned(self) == [self |-> self, raised |-> FALSE]
Threw(self) == [self |-> self, raised |-> TRUE]

\* StalePRMLAnalyzer.__init__: data is {}, a report without pull requests
StalePRMLAnalyzer ==
    [class |-> "stale", data |-> Some(<<>>), processed_data |-> None,
     insights |-> NoInsights]

Stale_load_data(self, file) ==
    IF IsNone(file) THEN Threw(self)
    ELSE Returned([self EXCEPT !.data = file])

Stale_prepare_features(self) ==
    IF Val(self.data) = <<>> THEN Threw(self)
    ELSE Returned([self EXCEPT !.processed_data = Some(prepare_features(Val(self.data)))])

Stale_analyze_abandonment_patterns(self) ==
    IF IsNone(self.processed_data) THEN Threw(self)
    ELSE IF Val(self.processed_data) = <<>> THEN Threw(self)
    ELSE Returned([self EXCEPT !.insights.abandonment_patterns =
                       Some(abandonment_patterns_of(Val(self.processed_data)))])

\* None has no copy(): the AttributeError is raised before the try block
Stale_perform_clustering(self, n_clusters, stream) ==
    LET r == perform_clustering(self.processed_data, n_clusters, stream, 0)
    IN  IF r.raised THEN Threw(self)
        ELSE Returned([self EXCEPT !.insights.clustering = r.clustering])

Stale_predict_risk_scores(self) ==
    IF IsNone(self.processed_data) THEN Threw(self)
    ELSE IF Val(self.processed_data) = <<>> THEN Threw(self)
    ELSE Returned([self EXCEPT !.insights.risk_analysis =
                       Some(risk_analysis_of(Val(self.processed_data)))])

\* LeadTimeMLAnalyzer.__init__; insights is {} (None here) until
\* generate_insights assigns it; out_file is what save_insights wrote
LeadTimeMLAnalyzer ==
    [class |-> "lead_time", data |-> None, insights |-> None, out_file |-> None]

\* a loaded frame: its rows, how many of the four cluster features are
\* among its columns, how many week days its merges fall on, and the
\* column 'cluster' (<<>> while the frame has none)
Frame(table, available, weekdays) ==
    [table |-> table, available |-> available, weekdays |-> weekdays, cluster |-> <<>>]

LeadTime_load_data(self, file) ==
    IF IsNone(file) THEN Threw(self)
    ELSE Returned([self EXCEPT !.data = file])

LeadTime_perform_clustering(self, n_clusters, stream) ==
    IF IsNone(self.data) THEN Threw(self)
    ELSE LET df == Val(self.data)
             run == LeadTimeRun(Some(df.table), df.available, n_clusters, stream)
         IN  IF run.raised THEN Threw(self)
             ELSE IF ~run.fitted THEN Returned(self)
             ELSE Returned([self EXCEPT !.data = Some([df EXCEPT !.cluster = run.assignments])])

\* the dictionary literal is evaluated entry by entry and assigned to
\* self.insights at the end: perform_clustering may raise and may add the
\* column, temporal_analysis raises unless the merges fall on no or on all
\* seven week days
LeadTime_generate_insights(self, n_clusters, stream) ==
    IF IsNone(self.data) THEN Threw(self)
    ELSE LET clustered == LeadTime_perform_clustering(self, n_clusters, stream)
         IN  IF clustered.raised THEN clustered
             ELSE IF Val(self.data).weekdays \notin {0, 7} THEN Threw(clustered.self)
             ELSE Returned([clustered.self EXCEPT !.insights =
                               Some([total_prs |-> Len(Val(self.data).table),
                                     clustered |-> Val(clustered.self.data).cluster # <<>>])])

\* save_insights without its guard on the empty insights
LeadTime_save_insights_unguarded(self) ==
    Returned([self EXCEPT !.out_file = Some(self.insights)])

LeadTime_save_insights(self) ==
    IF IsNone(self.insights) THEN Threw(self)
    ELSE Returned([self EXCEPT !.out_file = Some(self.insights)])

\* CollaborationMLAnalyzer.__init__
CollaborationMLAnalyzer ==
    [class |-> "collab", data |-> None, features_df |-> None, scaler_fitted |-> FALSE]

Collab_load_data(self, file) ==
    IF IsNone(file) THEN Threw(self)
    ELSE Returned([self EXCEPT !.data = file])

\* an empty report is falsy; a report without user statistics raises too
Collab_prepare_features(self) ==
    IF IsNone(self.data) THEN Threw(self)
    ELSE LET built == collab_features(Val(self.data))
         IN  IF built.raised THEN Threw(self)
             ELSE Returned([self EXCEPT !.features_df = Some(built.rows)])

Collab_normalize_data(self) ==
    IF IsNone(self.features_df) THEN Threw(self)
    ELSE Returned([self EXCEPT !.scaler_fitted = TRUE])

\* what the caller may invoke on an object of each class
Methods(class) ==
    CASE class = "stale" ->
            {"load_data", "prepare_features", "analyze_abandonment_patterns",
             "perform_clustering", "predict_risk_scores"}
      [] class = "lead_time" ->
            {"load_data", "perform_clustering", "generate_insights", "save_insights"}
      [] class = "collab" -> {"load_data", "prepare_features", "normalize_data"}

\* the files a caller names: None is a missing or invalid file
CallFiles(class) ==
    CASE class = "stale" ->
            {None, Some(<<>>), Some(<<BasePR>>), Some(<<BasePR, StalePR>>)}
      [] class = "lead_time" ->
            {None} \cup
            {Some(Frame(t, a, w)) :
                t \in SeqsUpTo(LeadTimeRows, 2) \ {<<>>}, a \in {1, 2}, w \in {0, 1}}
      [] class = "collab" ->
            {None, Some(<<>>)} \cup {Some(<<u>>) : u \in {r \in RawRecords : r.id.kind = "int"}}

\* the n_clusters arguments a caller passes
CallClusters == {0, 2}

Invoke(self, method, file, n_clusters, stream) ==
    CASE self.class = "stale" ->
            (CASE method = "load_data" -> Stale_load_data(self, file)
               [] method = "prepare_features" -> Stale_prepare_features(self)
               [] method = "analyze_abandonment_patterns" ->
                     Stale_analyze_abandonment_patterns(self)
               [] method = "perform_clustering" ->
                     Stale_perform_clustering(self, n_clusters, stream)
               [] method = "predict_risk_scores" -> Stale_predict_risk_scores(self))
      [] self.class = "lead_time" ->
            (CASE method = "load_data" -> LeadTime_load_data(self, file)
               [] method = "perform_clustering" ->
                     LeadTime_perform_clustering(self, n_clusters, stream)
               [] method = "generate_insights" ->
                     LeadTime_generate_insights(self, n_clusters, stream)
               [] method = "save_insights" -> LeadTime_save_insights(self))
      [] self.class = "collab" ->
            (CASE method = "load_data" -> Collab_load_data(self, file)
               [] method = "prepare_features" -> Collab_prepare_features(self)
               [] method = "normalize_data" -> Collab_normalize_data(self))

InitCalls ==
    /\ MainIdle /\ ClusterIdle /\ AnomalyIdle /\ RulesIdle
    /\ SerialIdle /\ RunsIdle /\ FeaturesIdle /\ ElbowIdle /\ MergeIdle
    /\ PatternsIdle /\ PredictorIdle
    /\ rng42 = 0
    /\ receiver \in {StalePRMLAnalyzer, LeadTimeMLAnalyzer, CollaborationMLAnalyzer}
    /\ last_call = None

Call ==
    /\ receiver.class # "none"
    /\ \E method \in Methods(receiver.class), file \in CallFiles(receiver.class),
          n_clusters \in CallClusters :
          LET r == Invoke(receiver, method, file, n_clusters, rng42)
          IN  /\ receiver' = r.self
              /\ last_call' = Some([method |-> method, raised |-> r.raised])
    /\ UNCHANGED <<mainVars, rng42, clusterVars, anomalyVars, ruleVars,
                   serialVars, runVars, featureVars, elbowVars, mergeVars, patternVars,
                   predictorVars>>

NextCalls == Call

SpecCalls == InitCalls /\ [][NextCalls]_vars

\* the method's prerequisite has not run on the object
Premature(self, method) ==
    CASE self.class = "stale" ->
            /\ method \in {"analyze_abandonment_patterns", "perform_clustering",
                           "predict_risk_scores"}
            /\ IsNone(self.processed_data)
      [] self.class = "lead_time" ->
            \/ (method \in {"perform_clustering", "generate_insights"} /\ IsNone(self.data))
            \/ (method = "save_insights" /\ IsNone(self.insights))
      [] self.class = "collab" -> method = "normalize_data" /\ IsNone(self.features_df)
      [] OTHER -> FALSE

\* C28: a method called before its prerequisite raises and leaves the
\* object as it was: no entry is added to the insights and no file is
\* written.
C28_PrematureCallRaisesAndChangesNothing ==
    [][~IsNone(last_call') /\ Premature(receiver, Val(last_call').method)
          => Val(last_call').raised /\ receiver' = receiver]_vars

\* a loaded lead-time analyzer was asked to save before generate_insights
\* ran: the call raised and there is no file
C28_SaveRefusedBeforeInsights ==
    /\ receiver.class = "lead_time"
    /\ ~IsNone(receiver.data)
    /\ IsNone(receiver.insights)
    /\ last_call = Some([method |-> "save_insights", raised |-> TRUE])
    /\ IsNone(receiver.out_file)


(***************************************************************************)
(* One CollaborationAnalyzer of the sentiment report, called again and     *)
(* again with the tables of successive inputs.                             *)
(***************************************************************************)
\* tables of 0, 1, 2 and 3 pull requests
PatternTables ==
    {<<>>,
     <<[total_comments |-> 0, total_reviews |-> 0, days_open |-> 1, has_conflicts |-> 0]>>,
     <<[total_comments |-> 0, total_reviews |-> 0, days_open |-> 1, has_conflicts |-> 0],
       [total_comments |-> 8, total_reviews |-> 2, days_open |-> 3, has_conflicts |-> 1]>>,
     <<[total_comments |-> 0, total_reviews |-> 0, days_open |-> 1, has_conflicts |-> 0],
       [total_comments |-> 8, total_reviews |-> 2, days_open |-> 3, has_conflicts |-> 1],
       [total_comments |-> 3, total_reviews |-> 1, days_open |-> 9, has_conflicts |-> 0]>>}

InitPatterns ==
    /\ MainIdle /\ ClusterIdle /\ AnomalyIdle /\ RulesIdle
    /\ SerialIdle /\ RunsIdle /\ FeaturesIdle /\ ElbowIdle /\ MergeIdle /\ CallsIdle
    /\ PredictorIdle
    /\ rng42 \in 0 .. MaxDraw
    /\ pattern_analyzer \in {CollaborationAnalyzer(k) : k \in ClusterArgs \cup {Len(cluster_labels)}}
    /\ pattern_runs = <<>>

\* the call made on an analyzer that is constructed anew for every input
AnalyzePatternsOnNewAnalyzer ==
    /\ pattern_analyzer # None
    /\ Len(pattern_runs) < MaxRuns
    /\ \E table \in PatternTables, available \in {2, 3} :
          LET r == analyze_collaboration_patterns(pattern_analyzer, table, available, rng42)
          IN  /\ pattern_analyzer' = CollaborationAnalyzer(pattern_analyzer.n_clusters)
              /\ pattern_runs' = Append(pattern_runs, [available |-> available, run |-> r.run])
    /\ UNCHANGED <<mainVars, rng42, clusterVars, anomalyVars, ruleVars,
                   serialVars, runVars, featureVars, elbowVars, mergeVars, callVars,
                   predictorVars>>

AnalyzePatterns ==
    /\ pattern_analyzer # None
    /\ Len(pattern_runs) < MaxRuns
    /\ \E table \in PatternTables, available \in {2, 3} :
          LET r == analyze_collaboration_patterns(pattern_analyzer, table, available, rng42)
          IN  /\ pattern_analyzer' = r.self
              /\ pattern_runs' = Append(pattern_runs, [available |-> available, run |-> r.run])
    /\ UNCHANGED <<mainVars, rng42, clusterVars, anomalyVars, ruleVars,
                   serialVars, runVars, featureVars, elbowVars, mergeVars, callVars,
                   predictorVars>>

NextPatterns == AnalyzePatterns

SpecPatterns == InitPatterns /\ [][NextPatterns]_vars

\* C29: over the calls on one analyzer n_clusters never increases; a call
\* that starts from the value the previous call left, reaches the clamp
\* with fewer rows than n_clusters sets it to max(1, rows) and runs with
\* that value; a call that returns early (no row, or fewer than three
\* cluster features) leaves it unchanged.
C29_NClustersNeverIncreases ==
    [][Len(pattern_runs') > Len(pattern_runs) =>
          LET call == pattern_runs'[Len(pattern_runs')]
              rows == call.run.n
              before == pattern_analyzer.n_clusters
              after == pattern_analyzer'.n_clusters
          IN  /\ after <= before
              /\ call.run.requested = before
              /\ IF rows = 0 \/ call.available < 3 THEN after = before
                 ELSE IF rows < before THEN after = (IF rows > 1 THEN rows ELSE 1)
                 ELSE after = before
              /\ call.run.fitted => call.run.used = after]_vars

\* the first call clamped n_clusters to its row count and the second call,
\* on a table with more rows, ran with that reduced value
C29_ReducedValueUsedOnLargerInput ==
    /\ Len(pattern_runs) = 2
    /\ pattern_runs[1].available >= 3
    /\ pattern_runs[1].run.n > 0
    /\ pattern_runs[1].run.n < pattern_runs[1].run.requested
    /\ pattern_runs[2].run.n > pattern_runs[1].run.n
    /\ pattern_runs[2].run.fitted
    /\ pattern_runs[2].run.used = pattern_runs[1].run.n
    /\ pattern_analyzer.n_clusters = pattern_runs[1].run.n


(***************************************************************************)
(* ConflictPredictor of the sentiment report.  A frame is given by its row *)
(* and column counts, its target by the number of rows with has_conflicts; *)
(* the forest's probabilities are whatever the library reports.            *)
(***************************************************************************)
\* __init__: nothing is fitted; scaler_features and model_features are the
\* column counts the scaler and the forest were fitted on, model_classes
\* the number of classes the forest saw
ConflictPredictor ==
    [is_trained |-> FALSE, scaler_features |-> 0, model_features |-> 0,
     model_classes |-> 0]

PredictorRows == {0, 9, 10, 11}
PredictorColumns == {0, 1, 2}
\* probabilities of the positive class, in hundredths
ProbaValues == {0, 50, 100}

ZeroResult == [accuracy |-> "zero", fit_completed |-> FALSE]

\* train_test_split(..., stratify=y) raises when a class has a single member
SplitRaises(rows, positives) ==
    /\ positives > 0 /\ positives < rows
    /\ (positives = 1 \/ rows - positives = 1)

\* the body of train from the try block on
train_try_block(self, rows, columns, positives) ==
    IF columns = 0
    THEN \* the scaler refuses a frame without columns
         [self |-> self, result |-> ZeroResult]
    ELSE IF SplitRaises(rows, positives)
    THEN [self |-> [self EXCEPT !.scaler_features = columns], result |-> ZeroResult]
    ELSE [self |-> [is_trained |-> TRUE, scaler_features |-> columns,
                    model_features |-> columns,
                    model_classes |-> IF positives = 0 \/ positives = rows THEN 1 ELSE 2],
          result |-> [accuracy |-> "evaluated", fit_completed |-> TRUE]]

\* train without its guard on the row count
train_without_minimum(self, rows, columns, positives) ==
    train_try_block(self, rows, columns, positives)

train(self, rows, columns, positives) ==
    IF rows < 10 THEN [self |-> self, result |-> ZeroResult]
    ELSE train_try_block(self, rows, columns, positives)

Zeros(n) == [i \in 1 .. n |-> 0]

\* scaler.transform and predict_proba raise on a column count other than
\* the fitted one; with one class seen, column 0 holds probability 1
predict_conflict_risk(self, rows, columns, proba) ==
    IF ~self.is_trained \/ rows = 0 \/ columns = 0
    THEN [values |-> Zeros(rows), failed |-> FALSE]
    ELSE IF columns # self.scaler_features \/ columns # self.model_features
    THEN [values |-> Zeros(rows), failed |-> TRUE]
    ELSE IF self.model_classes > 1
    THEN [values |-> [i \in 1 .. rows |-> proba], failed |-> FALSE]
    ELSE [values |-> [i \in 1 .. rows |-> 100], failed |-> FALSE]

\* main(), from create_feature_matrix to the end of the conflict block, on
\* the predictor it constructed: features_df.empty returns at once
conflict_prediction_block(self, rows, columns, positives, proba) ==
    IF rows = 0 \/ columns = 0
    THEN [self |-> self, returned_early |-> TRUE, fit_completed |-> FALSE,
          ml_results |-> [conflict_prediction |-> None, risk_scores |-> None]]
    ELSE IF rows >= 10
    THEN LET trained == train(self, rows, columns, positives)
             scores == predict_conflict_risk(trained.self, rows, columns, proba)
         IN  [self |-> trained.self, returned_early |-> FALSE,
              fit_completed |-> trained.result.fit_completed,
              ml_results |-> [conflict_prediction |-> Some(trained.result),
                              risk_scores |-> Some(scores.values)]]
    ELSE [self |-> self, returned_early |-> FALSE, fit_completed |-> FALSE,
          ml_results |-> [conflict_prediction |-> None, risk_scores |-> None]]

InitPredictor ==
    /\ MainIdle /\ ClusterIdle /\ AnomalyIdle /\ RulesIdle
    /\ SerialIdle /\ RunsIdle /\ FeaturesIdle /\ ElbowIdle /\ MergeIdle
    /\ CallsIdle /\ PatternsIdle
    /\ rng42 = 0
    /\ predictor = Some(ConflictPredictor)
    /\ predictor_call = None
    /\ conflict_block = None

predictorFrame ==
    <<mainVars, rng42, clusterVars, anomalyVars, ruleVars, serialVars, runVars,
      featureVars, elbowVars, mergeVars, callVars, patternVars>>

Train ==
    /\ ~IsNone(predictor)
    /\ \E rows \in PredictorRows, columns \in PredictorColumns, positives \in 0 .. 2 :
          LET r == train(Val(predictor), rows, columns, positives)
          IN  /\ positives <= rows
              /\ predictor' = Some(r.self)
              /\ predictor_call' = Some([op |-> "train", rows |-> rows, columns |-> columns,
                                         fit_completed |-> r.result.fit_completed,
                                         failed |-> FALSE,
                                         values |-> <<>>, accuracy |-> r.result.accuracy])
    /\ UNCHANGED <<predictorFrame, conflict_block>>

PredictConflictRisk ==
    /\ ~IsNone(predictor)
    /\ \E rows \in PredictorRows, columns \in PredictorColumns, proba \in ProbaValues :
          LET r == predict_conflict_risk(Val(predictor), rows, columns, proba)
          IN  predictor_call' = Some([op |-> "predict_conflict_risk", rows |-> rows,
                                      columns |-> columns, fit_completed |-> FALSE,
                                      failed |-> r.failed,
                                      values |-> r.values, accuracy |-> "none"])
    /\ UNCHANGED <<predictorFrame, predictor, conflict_block>>

\* main() runs its conflict block on the predictor it has just constructed
MainConflictBlock ==
    /\ predictor = Some(ConflictPredictor)
    /\ IsNone(predictor_call)
    /\ \E rows \in PredictorRows, columns \in PredictorColumns, positives \in 0 .. 2,
          proba \in ProbaValues :
          LET r == conflict_prediction_block(Val(predictor), rows, columns, positives, proba)
          IN  /\ positives <= rows
              /\ predictor' = Some(r.self)
              /\ predictor_call' = Some([op |-> "main", rows |-> rows, columns |-> columns,
                                         fit_completed |-> r.fit_completed,
                                         failed |-> FALSE,
                                         values |-> <<>>, accuracy |-> "none"])
              /\ conflict_block' = IF r.returned_early THEN None ELSE Some(r.ml_results)
    /\ UNCHANGED predictorFrame

NextPredictor ==
    \/ Train
    \/ PredictConflictRisk
    \/ MainConflictBlock

SpecPredictor == InitPredictor /\ [][NextPredictor]_vars

\* C30: is_trained is false on the new predictor and turns true only in a
\* train call on at least 10 rows whose fit completed; train on fewer
\* than 10 rows returns the zero result and leaves is_trained as it was;
\* predict_conflict_risk returns one value per row of X, all zero when
\* is_trained is false, X is empty or the prediction failed; main has
\* risk_scores in its results only from 10 rows on.
C30_TrainedOnlyByFitOnTenRows ==
    /\ [](IsNone(predictor_call) /\ ~IsNone(predictor) => ~Val(predictor).is_trained)
    /\ [][~IsNone(predictor_call') =>
            LET call == Val(predictor_call')
                before == Val(predictor)
                after == Val(predictor')
            IN  /\ after.is_trained /\ ~before.is_trained =>
                      /\ call.op \in {"train", "main"}
                      /\ call.rows >= 10
                      /\ call.fit_completed
                /\ call.op = "train" /\ call.rows < 10 =>
                      /\ call.accuracy = "zero"
                      /\ after.is_trained = before.is_trained
                /\ call.op = "predict_conflict_risk" =>
                      /\ Len(call.values) = call.rows
                      /\ (~before.is_trained \/ call.rows = 0 \/ call.columns = 0
                             \/ call.failed)
                            => \A i \in DOMAIN call.values : call.values[i] = 0
                /\ (/\ call.op = "main"
                    /\ ~IsNone(conflict_block')
                    /\ ~IsNone(Val(conflict_block').risk_scores))
                      => call.rows >= 10]_vars

\* a predictor that a train call on at least 10 rows has trained returned a
\* non-zero risk for each of at least 10 rows
C30_TrainedPredictorScoredRows ==
    /\ ~IsNone(predictor) /\ Val(predictor).is_trained
    /\ ~IsNone(predictor_call)
    /\ Val(predictor_call).op = "predict_conflict_risk"
    /\ Val(predictor_call).rows >= 10
    /\ Len(Val(predictor_call).values) = Val(predictor_call).rows
    /\ \A i \in DOMAIN Val(predictor_call).values : Val(predictor_call).values[i] > 0

=============================================================================
